---- MODULE Spec2Model ----
(***************************************************************************)
(* Layout-inference engine of scraper/layout_analyzer.py.                  *)
(*                                                                         *)
(* analyze_layout is modelled as a state machine over one page accessor,   *)
(* one step per accessor call: the two readiness waits, the viewport read, *)
(* the element enumeration, each call made on each element handle, then    *)
(* the slot/section/summary pipeline, which touches the accessor no more.  *)
(* The pure helpers (_detect_repeated_groups, _simplify_ratio, ...) are    *)
(* operators computed the way the code computes them.                      *)
(*                                                                         *)
(* Numbers: pixel geometry is integral.  A normalized coordinate (a float  *)
(* rounded to 4 decimals in the code) is kept as an integer number of      *)
(* ten-thousandths, so 0.25 is 2500.  Python's None is the empty sequence  *)
(* and an Optional value v is <<v>>.                                       *)
(***************************************************************************)
EXTENDS Integers, Sequences, FiniteSets, TLC

VARIABLES
    pc,         \* position of analyze_layout: start, timeout, viewport, enumerate,
                \* collect (at the head of the loop), the name of the accessor call
                \* it makes next on the handle in progress, done (returned) or
                \* raised (an exception reached the caller)
    page,       \* the page accessor handed to analyze_layout (input)
    args,       \* component_id / component_name arguments (input)
    viewport,   \* viewport_width, viewport_height once read
    handles,    \* all_elements_handles after the [:1000] cut
    idx,        \* number of handles the collection loop has finished with
    elements,   \* ElementInfo records collected so far
    current,    \* the handle in progress as its calls have answered so far,
                \* None between two handles
    result,     \* the returned dictionary, None while running
    closedAt,   \* where analyze_layout stood when its caller closed the page
                \* accessor, None while the accessor is open
    calls,      \* concurrent invocations: for each its accessor, its arguments
                \* and its locals
    heap,       \* the lists those invocations created; a local holds a list by
                \* its index here
    fn,         \* which pure function a function-level specification applies
    fnIn,       \* its input
    fnOut       \* its output, None until applied

vars == <<pc, page, args, viewport, handles, idx, elements, current, result,
          closedAt, calls, heap, fn, fnIn, fnOut>>

layoutVars == <<pc, page, args, viewport, handles, idx, elements, current, result,
                closedAt, calls, heap>>
fnVars == <<fn, fnIn, fnOut>>

-----------------------------------------------------------------------------
(* Optional values and small arithmetic *)

None == <<>>
Some(v) == <<v>>
Val(o) == o[1]

Abs(n) == IF n < 0 THEN -n ELSE n
Max2(a, b) == IF a >= b THEN a ELSE b

-----------------------------------------------------------------------------
(* Python floats.  A float is an IEEE 754 double: a quotient of integers   *)
(* is the nearest value with a 53-bit significand, ties to the even one.   *)

\* <<n', d', e>> with n' / d' * 2^e = n / d and 1/2 <= n' / d' < 1, for n >= 0
\* and d > 0; the quotient 0 is left as it is
RECURSIVE Normalized(_, _, _)
Normalized(n, d, e) ==
    IF n = 0 THEN <<n, d, e>>
    ELSE IF n >= d THEN Normalized(n, 2 * d, e + 1)
    ELSE IF 2 * n < d THEN Normalized(2 * n, d, e - 1)
    ELSE <<n, d, e>>

\* The float p / q of integers p >= 0 and q > 0: neg says whether it is
\* negative, bits[1..53] is the significand, the value being the sum of
\* bits[i] * 2^(e - i), and side says where the float lies from the exact
\* quotient (1 above, -1 below, 0 on it).
FloatOf(p, q) ==
    LET \* round to nearest, ties to even, on the bits beyond the 53rd
        Rounded(d, e, rem, bit) ==
            LET up == 2 * rem[53] >= d /\ ((2 * rem[53]) % d # 0 \/ bit[53] = 1)
                carry(i) == up /\ \A j \in (i + 1)..53 : bit[j] = 1
            IN  [neg |-> FALSE,
                 e |-> IF carry(0) THEN e + 1 ELSE e,
                 bits |-> SubSeq([i \in 1..53 |-> IF carry(0) THEN (IF i = 1 THEN 1 ELSE 0)
                                                  ELSE IF carry(i) THEN 1 - bit[i] ELSE bit[i]],
                                 1, 53),
                 side |-> IF up THEN 1 ELSE IF rem[53] # 0 THEN -1 ELSE 0]
        \* long division: rem[i] is the remainder after i bits of the quotient,
        \* n * 2^i modulo d, taken eight bits at a time
        Divided(n, d, e) ==
            LET rem[i \in 0..53] == IF i = 0 THEN n
                                    ELSE IF i % 8 = 0 THEN (256 * rem[i - 8]) % d
                                    ELSE (2^(i % 8) * rem[i - (i % 8)]) % d
                Bits(r) == Rounded(d, e, r, [i \in 1..53 |-> IF 2 * r[i - 1] >= d THEN 1 ELSE 0])
            IN  Bits([i \in 0..53 |-> rem[i]])
        From(nd) == Divided(nd[1], nd[2], nd[3])
    IN  From(Normalized(p, q, 0))

\* The binary digit of weight 2^k of a float
Digit(f, k) == IF f.e - k \in 1..53 THEN f.bits[f.e - k] ELSE 0

\* a < b for binary numerals over the same weights
DigitsLess(a, b) ==
    \E k \in DOMAIN a : a[k] < b[k] /\ \A j \in DOMAIN a : j > k => a[j] = b[j]

\* abs(f - g) as a binary numeral over the weights given, which hold every
\* digit of f and g: the subtraction of the smaller from the larger, a digit
\* borrowing when a lower digit fell short and every digit between was level.
FloatGap(f, g, weights) ==
    LET Minus(a, b) ==
            LET borrow(k) == \E j \in weights :
                                /\ j < k /\ a[j] < b[j]
                                /\ \A i \in weights : (j < i /\ i < k) => a[i] = b[i]
            IN  [k \in weights |-> (a[k] - b[k] - (IF borrow(k) THEN 1 ELSE 0) + 2) % 2]
        Ordered(fd, gd) == IF DigitsLess(fd, gd) THEN Minus(gd, fd) ELSE Minus(fd, gd)
    IN  Ordered([k \in weights |-> Digit(f, k)], [k \in weights |-> Digit(g, k)])

\* The weights that hold every digit of the floats fs
FloatWeights(fs) ==
    LET Span(es) == ((CHOOSE lo \in es : \A e \in es : lo <= e) - 53)
                        ..(CHOOSE hi \in es : \A e \in es : hi >= e)
    IN  Span({f.e : f \in fs})

\* the double nearest to the number with binary digits digit[k] at 2^k, ties to even
FloatFrom(neg, digit, weights) ==
    LET Top(t) ==
            LET bit(i) == IF t + 1 - i \in weights THEN digit[t + 1 - i] ELSE 0
                up == /\ bit(54) = 1
                      /\ bit(53) = 1 \/ \E k \in weights : k < t - 53 /\ digit[k] = 1
                carry(i) == up /\ \A j \in (i + 1)..53 : bit(j) = 1
            IN  [neg |-> neg,
                 e |-> IF carry(0) THEN t + 2 ELSE t + 1,
                 bits |-> SubSeq([i \in 1..53 |-> IF carry(0) THEN (IF i = 1 THEN 1 ELSE 0)
                                                  ELSE IF carry(i) THEN 1 - bit(i) ELSE bit(i)],
                                 1, 53)]
    IN  IF \A k \in weights : digit[k] = 0
        THEN [neg |-> FALSE, e |-> 0, bits |-> [i \in 1..53 |-> 0]]
        ELSE Top(CHOOSE t \in weights : digit[t] = 1 /\ \A k \in weights : k > t => digit[k] = 0)

\* f + g on doubles
FloatSum(f, g) ==
    LET Plus(a, b, weights) ==
            LET carry(k) == \E j \in weights :
                               /\ j < k /\ a[j] + b[j] = 2
                               /\ \A i \in weights : (j < i /\ i < k) => a[i] + b[i] >= 1
            IN  [k \in weights |-> (a[k] + b[k] + (IF carry(k) THEN 1 ELSE 0)) % 2]
        DigitsOf(h, weights) == [k \in weights |-> Digit(h, k)]
        Larger(weights) == IF DigitsLess(DigitsOf(f, weights), DigitsOf(g, weights)) THEN g ELSE f
    IN  FloatFrom(IF f.neg = g.neg THEN f.neg ELSE Larger(FloatWeights({f, g})).neg,
                  IF f.neg = g.neg
                  THEN Plus(DigitsOf(f, FloatWeights({f, g})), DigitsOf(g, FloatWeights({f, g})),
                            FloatWeights({f, g}))
                  ELSE FloatGap(f, g, FloatWeights({f, g})),
                  FloatWeights({f, g}))

\* abs(f) < abs(g) on doubles
FloatBelow(f, g) ==
    LET Less(weights) == DigitsLess([k \in weights |-> Digit(f, k)],
                                    [k \in weights |-> Digit(g, k)])
    IN  Less(FloatWeights({f, g}))

\* The significand of a float as an integer below 2^53, in four digits of base
\* 2^14, the lowest first
FloatLimbs(f) ==
    LET bit(w) == IF w <= 52 THEN f.bits[53 - w] ELSE 0
        part[i \in 0..14, j \in 0..3] ==
            IF i = 0 THEN 0 ELSE part[i - 1, j] + bit(14 * j + i - 1) * 2^(i - 1)
    IN  <<part[14, 0], part[14, 1], part[14, 2], part[14, 3]>>

\* f * g on doubles: the product of the significands, column by column with
\* the carries, rounded once
FloatProduct(f, g) ==
    LET Rounded(a, b) ==
            LET column(k) == IF k = 0 THEN a[1] * b[1]
                             ELSE IF k = 1 THEN a[1] * b[2] + a[2] * b[1]
                             ELSE IF k = 2 THEN a[1] * b[3] + a[2] * b[2] + a[3] * b[1]
                             ELSE IF k = 3 THEN a[1] * b[4] + a[2] * b[3] + a[3] * b[2]
                                                    + a[4] * b[1]
                             ELSE IF k = 4 THEN a[2] * b[4] + a[3] * b[3] + a[4] * b[2]
                             ELSE IF k = 5 THEN a[3] * b[4] + a[4] * b[3]
                             ELSE IF k = 6 THEN a[4] * b[4]
                             ELSE 0
                total[k \in 0..7] ==
                    IF k = 0 THEN column(0) ELSE column(k) + (total[k - 1] \div 2^14)
                Numeral(limb) ==
                    FloatFrom(f.neg # g.neg,
                              [k \in (f.e + g.e - 106)..(f.e + g.e - 1) |->
                                  (limb[(k - (f.e + g.e - 106)) \div 14]
                                      \div 2^((k - (f.e + g.e - 106)) % 14)) % 2],
                              (f.e + g.e - 106)..(f.e + g.e - 1))
            IN  Numeral([k \in 0..7 |-> total[k] % 2^14])
    IN  CHOOSE p \in {Rounded(a, b) : a \in {FloatLimbs(f)}, b \in {FloatLimbs(g)}} : TRUE

\* f / g on doubles, g not 0: long division of the significands, a digit of
\* base 16 of the quotient at a time, 15 digits and then whether a remainder is
\* left, rounded once.  The last of the four digits of a numeral holds
\* whatever lies beyond the first three.
FloatQuotient(f, g) ==
    LET Less(a, b) == \E j \in 1..4 : a[j] < b[j] /\ \A i \in (j + 1)..4 : a[i] = b[i]
        Times(a, m) ==
            LET c1 == (a[1] * m) \div 2^14
                c2 == (a[2] * m + c1) \div 2^14
                c3 == (a[3] * m + c2) \div 2^14
            IN  <<(a[1] * m) % 2^14, (a[2] * m + c1) % 2^14, (a[3] * m + c2) % 2^14,
                  a[4] * m + c3>>
        Minus(a, b) ==
            LET c1 == IF a[1] < b[1] THEN 1 ELSE 0
                c2 == IF a[2] - c1 < b[2] THEN 1 ELSE 0
                c3 == IF a[3] - c2 < b[3] THEN 1 ELSE 0
            IN  <<(a[1] - b[1] + 2^14) % 2^14, (a[2] - b[2] - c1 + 2^14) % 2^14,
                  (a[3] - b[3] - c2 + 2^14) % 2^14, a[4] - b[4] - c3>>
        RECURSIVE Long(_, _, _)
        Long(rem, d, n) ==
            IF n = 0 THEN <<IF rem = <<0, 0, 0, 0>> THEN 0 ELSE 1>>
            ELSE CHOOSE q \in UNION {{<<m>> \o Long(next, d, n - 1) :
                                        next \in {Times(Minus(rem, Times(d, m)), 16)}} :
                                     m \in {m \in 0..15 : /\ ~Less(rem, Times(d, m))
                                                         /\ Less(rem, Times(d, m + 1))}} : TRUE
        \* the binary digits of the quotient from 2^(f.e - g.e + 3) down, and
        \* the remainder's below them
        Rounded(digits) ==
            FloatFrom(f.neg # g.neg,
                      [k \in (f.e - g.e - 57)..(f.e - g.e + 3) |->
                          IF k = f.e - g.e - 57 THEN digits[16]
                          ELSE (digits[(f.e - g.e + 3 - k) \div 4 + 1]
                                   \div 2^(3 - ((f.e - g.e + 3 - k) % 4))) % 2],
                      (f.e - g.e - 57)..(f.e - g.e + 3))
    IN  CHOOSE q \in {Rounded(Long(a, b, 15)) : a \in {FloatLimbs(f)}, b \in {FloatLimbs(g)}} : TRUE

\* round(f) of a double below 2^31 in size: the nearest integer, the even one
\* when f is halfway between two
RoundInt(f) ==
    LET \* the digits of f from 2^(8 * j) to 2^(8 * j + i - 1) as a number
        part[i \in 0..8, j \in 0..3] ==
            IF i = 0 THEN 0 ELSE part[i - 1, j] + Digit(f, 8 * j + i - 1) * 2^(i - 1)
        more == \E i \in 1..53 : f.e - i < -1 /\ f.bits[i] = 1
        Nearest(n) == IF Digit(f, -1) = 1 /\ (more \/ n % 2 = 1) THEN n + 1 ELSE n
        Signed(n) == IF f.neg THEN -n ELSE n
    IN  Signed(Nearest(part[8, 0] + 2^8 * part[8, 1] + 2^16 * part[8, 2] + 2^24 * part[8, 3]))

\* round(v / size, digits) in units of 10^-digits, units being 10^digits and
\* size > 0.  round() takes the decimal nearest the float v / size: where the
\* exact quotient is halfway between two decimals, the side the float fell to
\* decides, and only a quotient that is a float itself goes to the even one.
RoundFloat(v, size, units) ==
    LET Nearest(q, r) ==
            LET Halfway(side) == IF side = 1 THEN q + 1
                                 ELSE IF side = -1 THEN q
                                 ELSE IF q % 2 = 0 THEN q ELSE q + 1
            IN  IF 2 * r < size THEN q
                ELSE IF 2 * r > size THEN q + 1
                ELSE Halfway(FloatOf(Abs(v), size).side)
        Signed(mag) == IF v < 0 THEN -mag ELSE mag
    IN  Signed(Nearest((Abs(v) * units) \div size, (Abs(v) * units) % size))

Range(s) == {s[i] : i \in DOMAIN s}

-----------------------------------------------------------------------------
(* Strings: str.lower, str.strip, str.replace, ' '.join and the `in` test *)

\* A string literal of this module holds the characters of ASCII but the
\* backquote, and those beyond whose code has a low byte of 0x80 or more
\* (Latin-1, Greek, half of every other block); a string is made of these.

\* The characters str.lower() changes, other than the capital sigma, and their
\* images in the same order, for the images a string of this module can hold.
UpperCase == "ABCDEFGHIJKLMNOPQRSTUVWXYZÀÁÂÃÄÅÆÇÈÉÊËÌÍÎÏÐÑÒÓÔÕÖØÙÚÛÜÝÞƂƄƇƋƎƑƘƠƢƤƦƧƩƬƮƯƱƲƳƵƷƸƼǄǅǇǈǊǋǍǏǑǓǕǗǙǛǞǠǢǤǦǨǪǬǮǱǲǴǶǷǸǺǼǾΆΈΉΊΌΎΏΑΒΓΔΕΖΗΘΙΚΛΜΝΞΟΠΡΤΥΦΧΨΩΪΫϏϘϚϜϞϠϢϤϦϨϪϬϮϴϷϹϺҀҊҌҎҐҒҔҖҘҚҜҞҠҢҤҦҨҪҬҮҰҲҴҶҸҺҼҾӀӁӃӅӇӉӋӍӐӒӔӖӘӚӜӞӠӢӤӦӨӪӬӮӰӲӴӶӸӺӼӾᎰᎱᎲᎳᎴᎵᎶᎷᎸᎹᎺᎻᎼᎽᎾᎿᏀᏁᏂᏃᏄᏅᏆᏇᏈᏉᏊᏋᏌᏍᏎᏏᏐᏑᏒᏓᏔᏕᏖᏗᏘᏙᏚᏛᏜᏝᏞᏟᏠᏡᏢᏣᏤᏥᏦᏧᏨᏩᏪᏫᏬᏭᏮᏯᏰᏱᏲᏳᏴᏵᲐᲑᲒᲓᲔᲕᲖᲗᲘᲙᲚᲛᲜᲝᲞᲟᲠᲡᲢᲣᲤᲥᲦᲧᲨᲩᲪᲫᲬᲭᲮᲯᲰᲱᲲᲳᲴᲵᲶᲷᲸᲹᲺᲽᲾᲿẀẂẄẆẈẊẌẎẐẒẔẞẠẢẤẦẨẪẬẮẰẲẴẶẸẺẼẾỀỂỄỆỈỊỌỎỐỒỔỖỘỚỜỞỠỢỤỦỨỪỬỮỰỲỴỶỸỺỼỾᾈᾉᾊᾋᾌᾍᾎᾏᾘᾙᾚᾛᾜᾝᾞᾟᾨᾩᾪᾫᾬᾭᾮᾯᾸᾹᾼῌῘῙῨῩῬῼↃⒶⒷⒸⒹⒺⒻⒼⒽⒾⒿⓀⓁⓂⓃⓄⓅⓆⓇⓈⓉⓊⓋⓌⓍⓎⓏⲀⲂⲄⲆⲈⲊⲌⲎⲐⲒⲔⲖⲘⲚⲜⲞⲠⲢⲤⲦⲨⲪⲬⲮⲰⲲⲴⲶⲸⲺⲼⲾⳀⳂⳄⳆⳈⳊⳌⳎⳐⳒⳔⳖⳘⳚⳜⳞⳠⳢⳫⳭⳲꚀꚂꚄꚆꚈꚊꚌꚎꚐꚒꚔꚖꚘꚚꞀꞂꞄꞆꞋꞐꞒꞖꞘꞚꞜꞞꞠꞢꞤꞦꞨꞰꞱꞲꞴꞶꞸꞺꞼꞾꟀꟂꟄꟅꟆꟇꟉꟐꟖꟘꟵ"

LowerCase == "abcdefghijklmnopqrstuvwxyzàáâãäåæçèéêëìíîïðñòóôõöøùúûüýþƃƅƈƌǝƒƙơƣƥʀƨʃƭʈưʊʋƴƶʒƹƽǆǆǉǉǌǌǎǐǒǔǖǘǚǜǟǡǣǥǧǩǫǭǯǳǳǵƕƿǹǻǽǿάέήίόύώαβγδεζηθικλμνξοπρτυφχψωϊϋϗϙϛϝϟϡϣϥϧϩϫϭϯθϸϲϻҁҋҍҏґғҕҗҙқҝҟҡңҥҧҩҫҭүұҳҵҷҹһҽҿӏӂӄӆӈӊӌӎӑӓӕӗәӛӝӟӡӣӥӧөӫӭӯӱӳӵӷӹӻӽӿꮀꮁꮂꮃꮄꮅꮆꮇꮈꮉꮊꮋꮌꮍꮎꮏꮐꮑꮒꮓꮔꮕꮖꮗꮘꮙꮚꮛꮜꮝꮞꮟꮠꮡꮢꮣꮤꮥꮦꮧꮨꮩꮪꮫꮬꮭꮮꮯꮰꮱꮲꮳꮴꮵꮶꮷꮸꮹꮺꮻꮼꮽꮾꮿᏸᏹᏺᏻᏼᏽაბგდევზთიკლმნოპჟრსტუფქღყშჩცძწჭხჯჰჱჲჳჴჵჶჷჸჹჺჽჾჿẁẃẅẇẉẋẍẏẑẓẕßạảấầẩẫậắằẳẵặẹẻẽếềểễệỉịọỏốồổỗộớờởỡợụủứừửữựỳỵỷỹỻỽỿᾀᾁᾂᾃᾄᾅᾆᾇᾐᾑᾒᾓᾔᾕᾖᾗᾠᾡᾢᾣᾤᾥᾦᾧᾰᾱᾳῃῐῑῠῡῥῳↄⓐⓑⓒⓓⓔⓕⓖⓗⓘⓙⓚⓛⓜⓝⓞⓟⓠⓡⓢⓣⓤⓥⓦⓧⓨⓩⲁⲃⲅⲇⲉⲋⲍⲏⲑⲓⲕⲗⲙⲛⲝⲟⲡⲣⲥⲧⲩⲫⲭⲯⲱⲳⲵⲷⲹⲻⲽⲿⳁⳃⳅⳇⳉⳋⳍⳏⳑⳓⳕⳗⳙⳛⳝⳟⳡⳣⳬⳮⳳꚁꚃꚅꚇꚉꚋꚍꚏꚑꚓꚕꚗꚙꚛꞁꞃꞅꞇꞌꞑꞓꞗꞙꞛꞝꞟꞡꞣꞥꞧꞩʞʇʝꞵꞷꞹꞻꞽꞿꟁꟃꞔʂᶎꟈꟊꟑꟗꟙꟶ"

Capitals == {SubSeq(UpperCase, i, i) : i \in 1..Len(UpperCase)}

\* The characters that are cased and not case-ignorable, and the
\* case-ignorable ones (Unicode 14, as str.lower() of Python 3.11 reads them)
Cased == "ABCDEFGHIJKLMNOPQRSTUVWXYZabcdefghijklmnopqrstuvwxyzªµºÀÁÂÃÄÅÆÇÈÉÊËÌÍÎÏÐÑÒÓÔÕÖØÙÚÛÜÝÞßàáâãäåæçèéêëìíîïðñòóôõöøùúûüýþÿƀƁƂƃƄƅƆƇƈƉƊƋƌƍƎƏƐƑƒƓƔƕƖƗƘƙƚƛƜƝƞƟƠơƢƣƤƥƦƧƨƩƪƫƬƭƮƯưƱƲƳƴƵƶƷƸƹƺƼƽƾƿǄǅǆǇǈǉǊǋǌǍǎǏǐǑǒǓǔǕǖǗǘǙǚǛǜǝǞǟǠǡǢǣǤǥǦǧǨǩǪǫǬǭǮǯǰǱǲǳǴǵǶǷǸǹǺǻǼǽǾǿʀʁʂʃʄʅʆʇʈʉʊʋʌʍʎʏʐʑʒʓʕʖʗʘʙʚʛʜʝʞʟʠʡʢʣʤʥʦʧʨʩʪʫʬʭʮʯΆΈΉΊΌΎΏΐΑΒΓΔΕΖΗΘΙΚΛΜΝΞΟΠΡΣΤΥΦΧΨΩΪΫάέήίΰαβγδεζηθικλμνξοπρςστυφχψωϊϋόύώϏϐϑϒϓϔϕϖϗϘϙϚϛϜϝϞϟϠϡϢϣϤϥϦϧϨϩϪϫϬϭϮϯϰϱϲϳϴϵϷϸϹϺϻϼϽϾϿҀҁҊҋҌҍҎҏҐґҒғҔҕҖҗҘҙҚқҜҝҞҟҠҡҢңҤҥҦҧҨҩҪҫҬҭҮүҰұҲҳҴҵҶҷҸҹҺһҼҽҾҿӀӁӂӃӄӅӆӇӈӉӊӋӌӍӎӏӐӑӒӓӔӕӖӗӘәӚӛӜӝӞӟӠӡӢӣӤӥӦӧӨөӪӫӬӭӮӯӰӱӲӳӴӵӶӷӸӹӺӻӼӽӾӿրցւփքօֆևֈႠႡႢႣႤႥႦႧႨႩႪႫႬႭႮႯႰႱႲႳႴႵႶႷႸႹႺႻႼႽႾႿჀჁჂჃჄჅჇჍაბგდევზთიკლმნოპჟრსტუფქღყშჩცძწჭხჯჰჱჲჳჴჵჶჷჸჹჺჽჾჿᎠᎡᎢᎣᎤᎥᎦᎧᎨᎩᎪᎫᎬᎭᎮᎯᎰᎱᎲᎳᎴᎵᎶᎷᎸᎹᎺᎻᎼᎽᎾᎿᏀᏁᏂᏃᏄᏅᏆᏇᏈᏉᏊᏋᏌᏍᏎᏏᏐᏑᏒᏓᏔᏕᏖᏗᏘᏙᏚᏛᏜᏝᏞᏟᏠᏡᏢᏣᏤᏥᏦᏧᏨᏩᏪᏫᏬᏭᏮᏯᏰᏱᏲᏳᏴᏵᏸᏹᏺᏻᏼᏽᲀᲁᲂᲃᲄᲅᲆᲇᲈᲐᲑᲒᲓᲔᲕᲖᲗᲘᲙᲚᲛᲜᲝᲞᲟᲠᲡᲢᲣᲤᲥᲦᲧᲨᲩᲪᲫᲬᲭᲮᲯᲰᲱᲲᲳᲴᲵᲶᲷᲸᲹᲺᲽᲾᲿᶀᶁᶂᶃᶄᶅᶆᶇᶈᶉᶊᶋᶌᶍᶎᶏᶐᶑᶒᶓᶔᶕᶖᶗᶘᶙᶚẀẁẂẃẄẅẆẇẈẉẊẋẌẍẎẏẐẑẒẓẔẕẖẗẘẙẚẛẜẝẞẟẠạẢảẤấẦầẨẩẪẫẬậẮắẰằẲẳẴẵẶặẸẹẺẻẼẽẾếỀềỂểỄễỆệỈỉỊịỌọỎỏỐốỒồỔổỖỗỘộỚớỜờỞởỠỡỢợỤụỦủỨứỪừỬửỮữỰựỲỳỴỵỶỷỸỹỺỻỼỽỾỿᾀᾁᾂᾃᾄᾅᾆᾇᾈᾉᾊᾋᾌᾍᾎᾏᾐᾑᾒᾓᾔᾕᾖᾗᾘᾙᾚᾛᾜᾝᾞᾟᾠᾡᾢᾣᾤᾥᾦᾧᾨᾩᾪᾫᾬᾭᾮᾯᾰᾱᾲᾳᾴᾶᾷᾸᾹᾺΆᾼιῂῃῄῆῇῈΈῊΉῌῐῑῒΐῖῗῘῙῚΊῠῡῢΰῤῥῦῧῨῩῪΎῬῲῳῴῶῷῸΌῺΏῼↃↄⒶⒷⒸⒹⒺⒻⒼⒽⒾⒿⓀⓁⓂⓃⓄⓅⓆⓇⓈⓉⓊⓋⓌⓍⓎⓏⓐⓑⓒⓓⓔⓕⓖⓗⓘⓙⓚⓛⓜⓝⓞⓟⓠⓡⓢⓣⓤⓥⓦⓧⓨⓩⲀⲁⲂⲃⲄⲅⲆⲇⲈⲉⲊⲋⲌⲍⲎⲏⲐⲑⲒⲓⲔⲕⲖⲗⲘⲙⲚⲛⲜⲝⲞⲟⲠⲡⲢⲣⲤⲥⲦⲧⲨⲩⲪⲫⲬⲭⲮⲯⲰⲱⲲⲳⲴⲵⲶⲷⲸⲹⲺⲻⲼⲽⲾⲿⳀⳁⳂⳃⳄⳅⳆⳇⳈⳉⳊⳋⳌⳍⳎⳏⳐⳑⳒⳓⳔⳕⳖⳗⳘⳙⳚⳛⳜⳝⳞⳟⳠⳡⳢⳣⳤⳫⳬⳭⳮⳲⳳꚀꚁꚂꚃꚄꚅꚆꚇꚈꚉꚊꚋꚌꚍꚎꚏꚐꚑꚒꚓꚔꚕꚖꚗꚘꚙꚚꚛꞀꞁꞂꞃꞄꞅꞆꞇꞋꞌꞍꞎꞐꞑꞒꞓꞔꞕꞖꞗꞘꞙꞚꞛꞜꞝꞞꞟꞠꞡꞢꞣꞤꞥꞦꞧꞨꞩꞪꞫꞬꞭꞮꞯꞰꞱꞲꞳꞴꞵꞶꞷꞸꞹꞺꞻꞼꞽꞾꞿꟀꟁꟂꟃꟄꟅꟆꟇꟈꟉꟊꟐꟑꟓꟕꟖꟗꟘꟙꟵꟶꟺꮀꮁꮂꮃꮄꮅꮆꮇꮈꮉꮊꮋꮌꮍꮎꮏꮐꮑꮒꮓꮔꮕꮖꮗꮘꮙꮚꮛꮜꮝꮞꮟꮠꮡꮢꮣꮤꮥꮦꮧꮨꮩꮪꮫꮬꮭꮮꮯꮰꮱꮲꮳꮴꮵꮶꮷꮸꮹꮺꮻꮼꮽꮾꮿ"

CaseIgnorable == "'.:^¨­¯´·¸ʰʱʲʳʴʵʶʷʸʹʺʻʼʽʾʿˀˁ˂˃˄˅ˆˇˈˉˊˋˌˍˎˏːˑ˒˓˔˕˖˗˘˙˚˛˜˝˞˟ˠˡˢˣˤ˥˦˧˨˩˪˫ˬ˭ˮ˯˰˱˲˳˴˵˶˷˸˹˺˻˼˽˾˿΄΅·҃҄҅҆҇҈҉ְֱֲֳִֵֶַָׇֹֺֻּֽֿׁׂ֑֖֛֢֣֤֥֦֧֪ׅ֚֭֮֒֓֔֕֗֘֙֜֝֞֟֠֡֨֩֫֬֯ׄ״ۖۗۘۙۚۛۜ۝ۣ۟۠ۡۢۤۥۦ۪ۭۧۨ۫۬ަާިީުޫެޭޮޯް߲߫߬߭߮߯߰߱߳ߴߵߺ߽࢈࢐࢑࢙࢚࢛࢘࢜࢝࢞࢟ࣉ࣏࣐࣑࣒࣓࣊࣋࣌࣍࣎ࣔࣕࣖࣗࣘࣙࣚࣛࣜࣝࣞࣟ࣠࣡࣢ࣰࣱࣲࣣࣦࣩ࣭࣮࣯ࣶࣹࣺࣤࣥࣧࣨ࣪࣫࣬ࣳࣴࣵࣷࣸࣻࣼࣽࣾࣿঁ়ুূৃৄ্ৢৣ৾ઁં઼ુૂૃૄૅેૈ્ૢૣૺૻૼ૽૾૿ஂீ்ಁ಼ಿೆೌ್ೢೣඁ්ිීුූັິີຶື຺ຸູົຼໆ່້໊໋໌ໍ྄ཱྀྀྂྃ྆྇ྍྎྏྐྑྒྒྷྔྕྖྗྙྚྛྜྜྷྞྟྠྡྡྷྣྤྥྦྦྷྨྩྪྫྫྷྭྮྯྰྱྲླྴྵྶྷྸྐྵྺྻྼ࿆ႂႅႆႍႝჼ឴឵ិីឹឺុូួំ៉៊់៌៍៎៏័៑្៓ៗ៝ᢅᢆᢩᪧ᪵᪶᪷᪸᪹᪺᪽᪰᪱᪲᪳᪴᪻᪼᪾ᪿᫀ᫃᫄᫊᫁᫂᫅᫆᫇᫈᫉᫋ᫌᫍᫎᮀᮁᮢᮣᮤᮥᮨᮩ᮫ᮬᮭ᯦ᯨᯩᯭᯯᯰᯱ᳔᳢᳣᳤᳥᳦᳧᳨᳕᳖᳗᳘᳙᳜᳝᳞᳟᳭᳐᳑᳒᳚᳛᳠᳴᳸᳹ᶛᶜᶝᶞᶟᶠᶡᶢᶣᶤᶥᶦᶧᶨᶩᶪᶫᶬᶭᶮᶯᶰᶱᶲᶳᶴᶵᶶᶷᶸᶹᶺᶻᶼᶽᶾᶿ᷐᷎᷺᷂᷊᷏᷹᷽᷿᷷᷸᷀᷁᷃᷄᷅᷆᷇᷈᷉᷋᷌᷑᷒ᷓᷔᷕᷖᷗᷘᷙᷚᷛᷜᷝᷞᷟᷠᷡᷢᷣᷤᷥᷦᷧᷨᷩᷪᷫᷬᷭᷮᷯᷰᷱᷲᷳᷴ᷵᷻᷾᷶᷼᷍᾽᾿῀῁῍῎῏῝῞῟῭΅`´῾ₐₑₒₓₔₕₖₗₘₙₚₛₜ⃒⃓⃘⃙⃚⃐⃑⃔⃕⃖⃗⃛⃜⃝⃞⃟⃠⃡⃢⃣⃤⃥⃦⃪⃫゙゚⃨⃬⃭⃮⃯⃧⃩⃰⳯⳰⳱ⷠⷡⷢⷣⷤⷥⷦⷧⷨⷩⷪⷫⷬⷭⷮⷯⷰⷱⷲⷳⷴⷵⷶⷷⷸⷹⷺⷻⷼⷽⷾⷿ゛゜ゝゞーヽヾꓸꓹꓺꓻꓼꓽꚜꚝꚞꚟ꛰꛱ꞈ꞉꞊ꟲꟳꟴꟸꟹ꣄ꣅ꣠꣡꣢꣣꣤꣥꣦꣧꣨꣩꣪꣫꣬꣭꣮꣯꣰꣱ꣿꦀꦁꦂ꦳ꦶꦷꦸꦹꦼꦽꧏꧥꧦꪴꪰꪲꪳꪷꪸꪾ꪿꫁ꫝꫬꫭꫳꫴ꫶ꯥꯨ꯭﮲﮳﮴﮵﮶﮷﮸﮹﮺﮻﮼﮽﮾﮿﯀﯁﯂﻿ﾞﾟ￣￹￺￻"

\* The 93 capitals str.lower() changes to a character no string of this module
\* can hold (U+0181 to U+0253, the Georgian and Cherokee capitals, ...).
Unwritable ==
    LET chars == "ƁƆƉƊƏƐƓƔƖƗƜƝƟϽϾϿႠႡႢႣႤႥႦႧႨႩႪႫႬႭႮႯႰႱႲႳႴႵႶႷႸႹႺႻႼႽႾႿჀჁჂჃჄჅჇჍᎠᎡᎢᎣᎤᎥᎦᎧᎨᎩᎪᎫᎬᎭᎮᎯᾺΆῈΈῊΉῚΊῪΎῸΌῺΏꞍꞪꞫꞬꞭꞮꞳ"
    IN  {SubSeq(chars, i, i) : i \in 1..Len(chars)}

\* c.lower() of one character.  It has no value here when c is one of the
\* capitals whose lower-case form cannot be written.
LowerChar(c) ==
    IF c = "Σ" THEN "σ"
    ELSE IF c \in Capitals
    THEN LET i == CHOOSE k \in 1..Len(UpperCase) : SubSeq(UpperCase, k, k) = c
         IN  SubSeq(LowerCase, i, i)
    ELSE IF c \in Unwritable THEN CHOOSE image \in {} : TRUE
    ELSE c

\* s.lower().  A capital sigma becomes the final sigma when a cased letter
\* comes before it and none after it, case-ignorable characters apart.
Lower(s) ==
    LET In(i, chars) == \E k \in 1..Len(chars) : SubSeq(chars, k, k) = SubSeq(s, i, i)
        CasedBefore(i) == \E j \in 1..(i - 1) :
                             In(j, Cased) /\ \A k \in (j + 1)..(i - 1) : In(k, CaseIgnorable)
        CasedAfter(i) == \E j \in (i + 1)..Len(s) :
                            In(j, Cased) /\ \A k \in (i + 1)..(j - 1) : In(k, CaseIgnorable)
        RECURSIVE From(_)
        From(i) ==
            IF i > Len(s) THEN ""
            ELSE (IF SubSeq(s, i, i) = "Σ" /\ CasedBefore(i) /\ ~CasedAfter(i) THEN "ς"
                  ELSE LowerChar(SubSeq(s, i, i))) \o From(i + 1)
    IN  From(1)

RECURSIVE Replace(_, _, _)
Replace(s, old, new) ==
    IF s = "" THEN ""
    ELSE (IF SubSeq(s, 1, 1) = old THEN new ELSE SubSeq(s, 1, 1))
         \o Replace(SubSeq(s, 2, Len(s)), old, new)

\* The characters str.strip() removes: str.isspace() (space, tab, line feed,
\* carriage return, form feed, then U+000B, U+001C..U+001F, U+0085, U+00A0
\* and U+1680)
Whitespace == {" ", "\t", "\n", "\r", "\f", "", "", "", "", "", "", " ", " "}

RECURSIVE LStrip(_)
LStrip(s) ==
    IF s # "" /\ SubSeq(s, 1, 1) \in Whitespace THEN LStrip(SubSeq(s, 2, Len(s))) ELSE s

RECURSIVE RStrip(_)
RStrip(s) ==
    IF s # "" /\ SubSeq(s, Len(s), Len(s)) \in Whitespace
    THEN RStrip(SubSeq(s, 1, Len(s) - 1)) ELSE s

Strip(s) == RStrip(LStrip(s))

\* k in s
Contains(k, s) ==
    \E i \in 1..(Len(s) - Len(k) + 1) : SubSeq(s, i, i + Len(k) - 1) = k

RECURSIVE Join(_, _)
Join(sep, strs) ==
    IF strs = <<>> THEN ""
    ELSE IF Len(strs) = 1 THEN strs[1]
    ELSE strs[1] \o sep \o Join(sep, Tail(strs))

-----------------------------------------------------------------------------
(* Element collection: _detect_animations, _detect_component,              *)
(* _get_element_info                                                       *)

\* The accessor call `call` on handle h raises.
Raises(h, call) == h.fail = call

_detect_animations(h) ==
    IF Raises(h, "detect_animations") THEN None ELSE h.anim

_detect_component(h) ==
    IF Raises(h, "detect_component") THEN None ELSE h.comp

ImageTags == {"img", "picture", "svg"}
TextTags == {"h1", "h2", "h3", "h4", "h5", "h6", "p", "span", "a", "button", "label"}
BgImageTokens == {"bg-cover", "bg-image", "bg-img", "hero-image"}

ElementTypeOf(tag, class_names, computed_styles) ==
    LET class_str == Lower(Join(" ", class_names))
        bg_image_style == computed_styles.backgroundImage
        has_bg_image == bg_image_style # "" /\ bg_image_style # "none"
    IN  IF tag \in ImageTags THEN "image"
        ELSE IF has_bg_image \/ \E token \in BgImageTokens : Contains(token, class_str)
             THEN "image"
        ELSE IF tag \in TextTags THEN "text"
        ELSE "container"

BoxMissing(box) ==
    box = None \/ Val(box).width = 0 \/ Val(box).height = 0

_get_element_info(h) ==
    IF Raises(h, "tagName") \/ Raises(h, "bounding_box") THEN None
    ELSE IF BoxMissing(h.box) THEN None
    ELSE IF \/ Raises(h, "textContent") \/ Raises(h, "classList")
            \/ Raises(h, "id") \/ Raises(h, "role") \/ Raises(h, "is_visible")
         THEN None
    ELSE IF ~h.visible THEN None
    ELSE IF Raises(h, "children") \/ Raises(h, "computed_styles") THEN None
    ELSE Some([tag |-> h.tag,
               bounding_box |-> Val(h.box),
               text_content |-> Strip(h.text),
               class_names |-> h.classes,
               id |-> h.id,
               role |-> h.role,
               element_type |-> ElementTypeOf(h.tag, h.classes, h.styles),
               is_visible |-> h.visible,
               has_children |-> h.children,
               computed_styles |-> h.styles,
               animations |-> _detect_animations(h),
               component_info |-> _detect_component(h)])

excluded_tags == {"script", "style", "meta", "link", "noscript", "template", "head", "html"}

\* CollectOne without the per-element guard keeping what was collected:
\* a failing tag check loses the elements gathered so far
CollectOne_Abort(elems, handle) ==
    IF Raises(handle, "tag_check") THEN <<>>
    ELSE IF handle.tag \in excluded_tags THEN elems
    ELSE LET info == _get_element_info(handle)
         IN  IF info # None THEN Append(elems, Val(info)) ELSE elems

\* One iteration of the collection loop: the elements list after visiting `handle`.
CollectOne(elems, handle) ==
    IF Raises(handle, "tag_check") THEN elems
    ELSE IF handle.tag \in excluded_tags THEN elems
    ELSE LET info == _get_element_info(handle)
         IN  IF info # None THEN Append(elems, Val(info)) ELSE elems

-----------------------------------------------------------------------------
(* _gcd and _simplify_ratio *)

RECURSIVE _gcd(_, _)
_gcd(a, b) == IF b = 0 THEN a ELSE _gcd(b, a % b)

\* tolerance = 0.01 as the fraction ToleranceNum / ToleranceDen
ToleranceNum == 1
ToleranceDen == 100
max_denom == 20

common_ratios ==
    << <<1, 1, "1:1">>, <<4, 3, "4:3">>, <<16, 9, "16:9">>, <<16, 10, "16:10">>,
       <<21, 9, "21:9">>, <<3, 2, "3:2">>, <<2, 1, "2:1">> >>

\* NearRatio with a tolerance of 0.001
NearRatio_Tight(width, height, w, h) ==
    Abs(width * h - w * height) * 1000 < height * h

\* abs(width / height - w / h) < tolerance, for height > 0 and h > 0.  The
\* floats decide as the exact quotients do unless the exact difference is the
\* tolerance itself (201 / 100 against 2 / 1): then the rounding of the two
\* divisions and of the literal 0.01 decides.
NearRatio(width, height, w, h) ==
    LET FloatNear(ratio, common, tolerance) ==
            LET Below(weights) == DigitsLess(FloatGap(ratio, common, weights),
                                             [k \in weights |-> Digit(tolerance, k)])
            IN  Below(FloatWeights({ratio, common, tolerance}))
        Near(gap, bound) ==
            IF gap # bound THEN gap < bound
            ELSE FloatNear(FloatOf(width, height), FloatOf(w, h),
                           FloatOf(ToleranceNum, ToleranceDen))
    IN  Near(Abs(width * h - w * height) * ToleranceDen, ToleranceNum * height * h)

\* line 204: num = round(ratio * denom), ratio being the float width / height.
\* The float product is within a rounding error of the exact one, so it
\* rounds as the exact product does unless that is halfway between two
\* integers: then the two float roundings decide.
RoundRatio(width, height, denom) ==
    IF 2 * ((width * denom) % height) # height
    THEN (2 * width * denom + height) \div (2 * height)
    ELSE RoundInt(FloatProduct(FloatOf(width, height), FloatOf(denom, 1)))

\* The denominator search of _simplify_ratio from `denom` on.  best is None
\* (best_diff = inf) or <<num, denom>> of the best match so far.
\* SearchRatio that replaces the best match on an equal difference (<= for <)
RECURSIVE SearchRatio_LastBest(_, _, _, _)
SearchRatio_LastBest(width, height, denom, best) ==
    IF denom > max_denom THEN best
    ELSE LET Next(num) ==
                 LET diffN == Abs(width * denom - num * height)
                     withinTol == NearRatio(width, height, num, denom)
                     better == \/ best = None
                               \/ LET bn == Val(best)[1]
                                      bd == Val(best)[2]
                                  IN  diffN * bd <= Abs(width * bd - bn * height) * denom
                 IN  IF num # 0 /\ better /\ withinTol THEN Some(<<num, denom>>) ELSE best
         IN  CHOOSE found \in {SearchRatio_LastBest(width, height, denom + 1, next) :
                                 next \in {Next(num) : num \in {RoundRatio(width, height, denom)}}} : TRUE

\* diff < best_diff is decided by the floats where the exact differences are
\* equal, the ratio lying midway between the two matches.
RECURSIVE SearchRatio(_, _, _, _)
SearchRatio(width, height, denom, best) ==
    IF denom > max_denom THEN best
    ELSE LET Next(num) ==
                 LET \* diff = diffN / (height * denom)
                     diffN == Abs(width * denom - num * height)
                     withinTol == NearRatio(width, height, num, denom)
                     better == \/ best = None
                               \/ LET FloatCloser(ratio, actual_ratio, best_ratio) ==
                                          LET Less(weights) ==
                                                  DigitsLess(FloatGap(ratio, actual_ratio, weights),
                                                             FloatGap(ratio, best_ratio, weights))
                                          IN  Less(FloatWeights({ratio, actual_ratio, best_ratio}))
                                      Closer(bn, bd) ==
                                          IF diffN * bd # Abs(width * bd - bn * height) * denom
                                          THEN diffN * bd < Abs(width * bd - bn * height) * denom
                                          ELSE FloatCloser(FloatOf(width, height), FloatOf(num, denom),
                                                           FloatOf(bn, bd))
                                  IN  Closer(Val(best)[1], Val(best)[2])
                 IN  IF num # 0 /\ better /\ withinTol THEN Some(<<num, denom>>) ELSE best
         IN  CHOOSE found \in {SearchRatio(width, height, denom + 1, next) :
                                 next \in {Next(num) : num \in {RoundRatio(width, height, denom)}}} : TRUE

\* Optional label; width >= 0 and height >= 0 as a rendered box has them.
_simplify_ratio(width, height) ==
    IF height = 0 THEN None
    ELSE IF \E k \in DOMAIN common_ratios :
                NearRatio(width, height, common_ratios[k][1], common_ratios[k][2])
         THEN LET k == CHOOSE c \in DOMAIN common_ratios :
                        /\ NearRatio(width, height, common_ratios[c][1], common_ratios[c][2])
                        /\ \A e \in 1..(c - 1) :
                             ~NearRatio(width, height, common_ratios[e][1], common_ratios[e][2])
              IN  Some(common_ratios[k][3])
    ELSE LET best == SearchRatio(width, height, 1, None)
         IN  IF best = None THEN None
             ELSE Some(ToString(Val(best)[1]) \o ":" \o ToString(Val(best)[2]))

-----------------------------------------------------------------------------
(* _infer_semantic_role and _normalize_role *)

\* position_in_viewport is the fraction position.n / position.d (d > 0)
Below3Tenths(position) == 10 * position.n < 3 * position.d

\* _infer_semantic_role with the heading tags tested before the card and grid rules
_infer_semantic_role_HeadingFirst(element, position_in_viewport, is_large, has_headline) ==
    LET tag == element.tag
        class_str == Lower(Join(" ", element.class_names))
        text_lower == Lower(element.text_content)
    IN  IF \/ Contains("hero", class_str) \/ Contains("hero", text_lower)
           \/ (Below3Tenths(position_in_viewport) /\ is_large /\ has_headline)
        THEN (IF element.has_children THEN "hero-split" ELSE "hero")
        ELSE IF tag \in {"h1", "h2", "h3"} THEN "headline"
        ELSE IF tag \in {"h4", "h5", "h6"} THEN "subhead"
        ELSE IF Contains("card", class_str) \/ Contains("card", text_lower)
        THEN "card-item"
        ELSE IF Contains("grid", class_str) \/ element.computed_styles.display = "grid"
        THEN "card-grid"
        ELSE IF tag = "nav" \/ Contains("nav", class_str) \/ element.role = Some("navigation")
        THEN "navigation"
        ELSE IF tag \in {"button", "a"}
                /\ (Contains("cta", class_str) \/ Contains("button", class_str))
        THEN "cta"
        ELSE IF element.element_type = "image"
        THEN (IF Below3Tenths(position_in_viewport) THEN "hero-image" ELSE "image")
        ELSE "content-block"

_infer_semantic_role(element, position_in_viewport, is_large, has_headline) ==
    LET tag == element.tag
        class_str == Lower(Join(" ", element.class_names))
        text_lower == Lower(element.text_content)
    IN  IF \/ Contains("hero", class_str) \/ Contains("hero", text_lower)
           \/ (Below3Tenths(position_in_viewport) /\ is_large /\ has_headline)
        THEN (IF element.has_children THEN "hero-split" ELSE "hero")
        ELSE IF Contains("card", class_str) \/ Contains("card", text_lower)
        THEN "card-item"
        ELSE IF Contains("grid", class_str) \/ element.computed_styles.display = "grid"
        THEN "card-grid"
        ELSE IF tag = "nav" \/ Contains("nav", class_str) \/ element.role = Some("navigation")
        THEN "navigation"
        ELSE IF tag \in {"h1", "h2", "h3"} THEN "headline"
        ELSE IF tag \in {"h4", "h5", "h6"} THEN "subhead"
        ELSE IF tag \in {"button", "a"}
                /\ (Contains("cta", class_str) \/ Contains("button", class_str))
        THEN "cta"
        ELSE IF element.element_type = "image"
        THEN (IF Below3Tenths(position_in_viewport) THEN "hero-image" ELSE "image")
        ELSE "content-block"

\* _normalize_role whose subhead branch returns 'heading'
_normalize_role_SubheadAsHeading(role) ==
    LET role_lower == Lower(role)
    IN  IF role_lower \in {"hero", "hero-split", "hero-section"} THEN "hero"
        ELSE IF role_lower \in {"card", "card-item", "card-grid"}
        THEN (IF Contains("grid", role_lower) THEN "card-grid" ELSE "card")
        ELSE IF role_lower \in {"content", "content-block", "content-section", "content-area"}
        THEN "content"
        ELSE IF role_lower \in {"nav", "navigation", "navbar", "menu"} THEN "navigation"
        ELSE IF role_lower \in {"headline", "heading", "title", "h1", "h2", "h3"}
        THEN "headline"
        ELSE IF role_lower \in {"subhead", "subheading", "subtitle", "h4", "h5", "h6"}
        THEN "heading"
        ELSE IF role_lower \in {"body", "paragraph", "text", "p"} THEN "body-text"
        ELSE IF role_lower \in {"image", "img", "picture", "photo"} THEN "image"
        ELSE IF role_lower \in {"hero-image", "hero-img"} THEN "hero-image"
        ELSE IF role_lower \in {"cta", "button", "call-to-action", "action"} THEN "cta"
        ELSE IF role_lower \in {"footer", "foot"} THEN "footer"
        ELSE IF role_lower # "" THEN role_lower ELSE "content"

\* _normalize_role that only lower-cases, without the table of lines 438-475
_normalize_role_LowerOnly(role) == Lower(role)

_normalize_role(role) ==
    LET role_lower == Lower(role)
    IN  IF role_lower \in {"hero", "hero-split", "hero-section"} THEN "hero"
        ELSE IF role_lower \in {"card", "card-item", "card-grid"}
        THEN (IF Contains("grid", role_lower) THEN "card-grid" ELSE "card")
        ELSE IF role_lower \in {"content", "content-block", "content-section", "content-area"}
        THEN "content"
        ELSE IF role_lower \in {"nav", "navigation", "navbar", "menu"} THEN "navigation"
        ELSE IF role_lower \in {"headline", "heading", "title", "h1", "h2", "h3"}
        THEN "headline"
        ELSE IF role_lower \in {"subhead", "subheading", "subtitle", "h4", "h5", "h6"}
        THEN "subhead"
        ELSE IF role_lower \in {"body", "paragraph", "text", "p"} THEN "body-text"
        ELSE IF role_lower \in {"image", "img", "picture", "photo"} THEN "image"
        ELSE IF role_lower \in {"hero-image", "hero-img"} THEN "hero-image"
        ELSE IF role_lower \in {"cta", "button", "call-to-action", "action"} THEN "cta"
        ELSE IF role_lower \in {"footer", "foot"} THEN "footer"
        ELSE IF role_lower # "" THEN role_lower ELSE "content"

-----------------------------------------------------------------------------
(* _detect_repeated_groups.  Indices are the code's 0-based list indices:  *)
(* element i of the Python list is elems[i + 1].                           *)

\* threshold = 0.1 as the fraction ThresholdNum / ThresholdDen
ThresholdNum == 1
ThresholdDen == 10

\* DimClose with a threshold of 0.05
DimClose_Tight(a, b) ==
    IF Max2(a, b) > 0 THEN Abs(a - b) * 20 < Max2(a, b) ELSE FALSE

\* DimClose with a threshold of 0.2
DimClose_Loose(a, b) ==
    IF Max2(a, b) > 0 THEN Abs(a - b) * 5 < Max2(a, b) ELSE FALSE

\* abs(a - b) / max(a, b) < threshold, with the quotient 1.0 when max(a, b) <= 0
DimClose(a, b) ==
    IF Max2(a, b) > 0
    THEN Abs(a - b) * ThresholdDen < ThresholdNum * Max2(a, b)
    ELSE FALSE

\* width_diff < threshold and height_diff < threshold
SimilarSize(e1, e2) ==
    /\ DimClose(e1.bounding_box.width, e2.bounding_box.width)
    /\ DimClose(e1.bounding_box.height, e2.bounding_box.height)

\* The inner loop for key i: i followed by every later unprocessed similar index.
RECURSIVE GroupFrom(_, _, _, _)
\* GroupFrom without the `j in processed` test of line 371
RECURSIVE GroupFrom_IgnoreProcessed(_, _, _, _)
GroupFrom_IgnoreProcessed(elems, i, j, processed) ==
    IF j >= Len(elems) THEN <<>>
    ELSE IF SimilarSize(elems[i + 1], elems[j + 1])
         THEN <<j>> \o GroupFrom_IgnoreProcessed(elems, i, j + 1, processed)
         ELSE GroupFrom_IgnoreProcessed(elems, i, j + 1, processed)

GroupFrom(elems, i, j, processed) ==
    IF j >= Len(elems) THEN <<>>
    ELSE IF j \notin processed /\ SimilarSize(elems[i + 1], elems[j + 1])
         THEN <<j>> \o GroupFrom(elems, i, j + 1, processed)
         ELSE GroupFrom(elems, i, j + 1, processed)

\* The outer loop from index i on; groups maps a key index to its member list.
RECURSIVE RepeatedFrom(_, _, _, _)
RepeatedFrom(elems, i, groups, processed) ==
    IF i >= Len(elems) THEN groups
    ELSE IF i \in processed THEN RepeatedFrom(elems, i + 1, groups, processed)
    ELSE LET group == <<i>> \o GroupFrom(elems, i, i + 1, processed)
         IN  IF Len(group) > 1
             THEN RepeatedFrom(elems, i + 1, (i :> group) @@ groups,
                               processed \cup Range(group))
             ELSE RepeatedFrom(elems, i + 1, groups, processed)

_detect_repeated_groups(elems) ==
    RepeatedFrom(elems, 0, [k \in {} |-> <<>>], {})

-----------------------------------------------------------------------------
(* _normalize_bounding_box.  The result is in ten-thousandths; when a      *)
(* viewport dimension is 0 the pixel box is passed through unchanged.      *)

Unit == 10000

_normalize_bounding_box(bbox, viewport_width, viewport_height) ==
    IF viewport_width = 0 \/ viewport_height = 0
    THEN [x |-> bbox.x * Unit, y |-> bbox.y * Unit,
          width |-> bbox.width * Unit, height |-> bbox.height * Unit]
    ELSE [x |-> RoundFloat(bbox.x, viewport_width, Unit),
          y |-> RoundFloat(bbox.y, viewport_height, Unit),
          width |-> RoundFloat(bbox.width, viewport_width, Unit),
          height |-> RoundFloat(bbox.height, viewport_height, Unit)]

-----------------------------------------------------------------------------
(* Float arithmetic on normalized coordinates *)

\* the double nearest to k / 10000 with its sign: a coordinate as round(v, 4)
\* returns it, or a whole number of pixels passed through unchanged
FloatUnits(k) ==
    LET Signed(f) == [neg |-> k < 0, e |-> f.e, bits |-> f.bits]
    IN  IF k % Unit = 0 THEN Signed(FloatOf(Abs(k) \div Unit, 1))
        ELSE Signed(FloatOf(Abs(k), Unit))

\* abs(a - b) on doubles, for two coordinates in ten-thousandths
FloatDistance(a, b) == [FloatSum(FloatUnits(a), FloatUnits(-b)) EXCEPT !.neg = FALSE]

\* lines 418-419: the gap after `slot` in its row as the code computes it,
\* next x - (x + width) on doubles
GapFloat(slot, next) ==
    FloatSum(FloatUnits(next.bounding_box.x),
             [FloatSum(FloatUnits(slot.bounding_box.x), FloatUnits(slot.bounding_box.width))
                 EXCEPT !.neg = ~@])

-----------------------------------------------------------------------------
(* Slot creation: the loop of analyze_layout over significant_elements *)

min_size == 20
SmallSide == 50
LargeWidth == 300
LargeHeight == 200

significant_elements(elems) ==
    LET Big(e) == e.bounding_box.width >= min_size /\ e.bounding_box.height >= min_size
    IN  SelectSeq(elems, Big)

\* 0-based list.index(v)
IndexOf(seq, v) ==
    (CHOOSE k \in DOMAIN seq : seq[k] = v /\ \A m \in 1..(k - 1) : seq[m] # v) - 1

in_repeated_group(repeated_groups) ==
    UNION {Range(repeated_groups[k]) : k \in DOMAIN repeated_groups}

\* position_ratio as a fraction
PositionRatio(element, viewport_height) ==
    IF viewport_height > 0
    THEN [n |-> element.bounding_box.y, d |-> viewport_height]
    ELSE [n |-> 1, d |-> 2]

\* width >= viewport_width * 0.9 and height >= viewport_height * 0.7
FullBleed(element, viewport_width, viewport_height) ==
    /\ element.element_type = "container"
    /\ element.has_children
    /\ 10 * element.bounding_box.width >= 9 * viewport_width
    /\ 10 * element.bounding_box.height >= 7 * viewport_height

\* The slot type, or None when the element is skipped as a non-significant container.
SlotType(element) ==
    IF element.element_type = "container" /\ element.has_children THEN Some("container")
    ELSE IF element.element_type = "text"
            /\ element.tag \in {"h1", "h2", "h3", "h4", "h5", "h6", "p"}
         THEN Some("text")
    ELSE IF element.element_type = "image" THEN Some("image")
    ELSE IF element.text_content = "" /\ ~element.has_children THEN None
    ELSE Some("container")

\* SlotAspect with the image test dropped
SlotAspect_AnyType(slot_type, element) ==
    _simplify_ratio(element.bounding_box.width, element.bounding_box.height)

\* lines 771-776: the aspect label, computed for image slots only
SlotAspect(slot_type, element) ==
    IF slot_type = "image"
    THEN _simplify_ratio(element.bounding_box.width, element.bounding_box.height)
    ELSE None

\* slot_id of the element given its inferred (raw) role and the running counter
SlotId(element, role, slot_counter) ==
    IF element.id # None /\ Val(element.id) # ""
    THEN "slot-" \o Val(element.id)
    ELSE "slot-" \o role \o "-" \o ToString(slot_counter)

\* One iteration of the slot loop for element i: None when the element is
\* skipped (continue), else the Slot.
SlotFor(element, i, slot_counter, repeated_groups, viewport_width, viewport_height) ==
    IF /\ element.bounding_box.width < SmallSide
       /\ element.bounding_box.height < SmallSide
       /\ element.element_type # "text"
    THEN None
    ELSE IF FullBleed(element, viewport_width, viewport_height) THEN None
    ELSE IF SlotType(element) = None THEN None
    ELSE
    LET position_ratio == PositionRatio(element, viewport_height)
        is_large == \/ element.bounding_box.width > LargeWidth
                    \/ element.bounding_box.height > LargeHeight
        has_headline ==
            \/ element.tag \in {"h1", "h2", "h3"}
            \/ \E k \in DOMAIN element.class_names :
                   Contains("headline", Lower(element.class_names[k]))
        role == _infer_semantic_role(element, position_ratio, is_large, has_headline)
        normalized_role == _normalize_role(role)
        slot_type == Val(SlotType(element))
        aspect == SlotAspect(slot_type, element)
        is_repeated == i \in in_repeated_group(repeated_groups)
        repeated_index ==
            IF is_repeated
            THEN LET g == CHOOSE k \in DOMAIN repeated_groups :
                              i \in Range(repeated_groups[k])
                 IN  Some(IndexOf(repeated_groups[g], i))
            ELSE None
    IN  Some([id |-> SlotId(element, role, slot_counter),
              type |-> slot_type,
              role |-> normalized_role,
              bounding_box |-> _normalize_bounding_box(element.bounding_box,
                                                       viewport_width, viewport_height),
              aspect |-> aspect,
              repeated |-> is_repeated,
              repeated_index |-> repeated_index,
              animations |-> element.animations,
              component_info |-> element.component_info])

RECURSIVE SlotsFrom(_, _, _, _, _, _)
SlotsFrom(sig, i, slot_counter, repeated_groups, viewport_width, viewport_height) ==
    IF i >= Len(sig) THEN <<>>
    ELSE LET Then(s) ==
                 IF s = None
                 THEN SlotsFrom(sig, i + 1, slot_counter, repeated_groups,
                                viewport_width, viewport_height)
                 ELSE <<Val(s)>> \o SlotsFrom(sig, i + 1, slot_counter + 1, repeated_groups,
                                              viewport_width, viewport_height)
         IN  Then(SlotFor(sig[i + 1], i, slot_counter, repeated_groups,
                          viewport_width, viewport_height))

BuildSlots(sig, viewport_width, viewport_height) ==
    SlotsFrom(sig, 0, 0, _detect_repeated_groups(sig), viewport_width, viewport_height)

-----------------------------------------------------------------------------
(* Binning by normalized y: round(y / tolerance), a float division.          *)

\* lines 401 and 818: round(y / tolerance) for y and tolerance in
\* ten-thousandths.  The float quotient is within a rounding error of the
\* exact one, so it rounds as the exact quotient does unless that is halfway
\* between two integers: then the roundings of y, of the tolerance and of the
\* division decide.
RoundBin(y, tolerance) ==
    IF 2 * (y % tolerance) # tolerance
    THEN (2 * y + tolerance) \div (2 * tolerance)
    ELSE RoundInt(FloatQuotient(FloatUnits(y), FloatUnits(tolerance)))

\* round(y / 0.1), tolerance 0.1 being TenthUnits ten-thousandths
TenthUnits == 1000
SectionBin(y) == RoundBin(y, TenthUnits)

\* round(y / 0.05)
TwentiethUnits == 500
GridBin(y) == RoundBin(y, TwentiethUnits)

-----------------------------------------------------------------------------
(* _detect_grid_layout *)

\* list.sort(key = x): stable insertion of each slot after the slots with x <= its x
RECURSIVE SortByX(_)
SortByX(ss) ==
    IF ss = <<>> THEN <<>>
    ELSE LET rest == SortByX(SubSeq(ss, 1, Len(ss) - 1))
             last == ss[Len(ss)]
             k == Cardinality({m \in DOMAIN rest :
                                  rest[m].bounding_box.x <= last.bounding_box.x})
         IN  SubSeq(rest, 1, k) \o <<last>> \o SubSeq(rest, k + 1, Len(rest))

RECURSIVE SumSeq(_)
SumSeq(ns) == IF ns = <<>> THEN 0 ELSE ns[1] + SumSeq(Tail(ns))

\* lines 416-421: the gaps the code keeps between consecutive slots of a row
\* sorted by x, in ten-thousandths.  `gap > 0` is a test on doubles: a gap of
\* exactly 0 is kept, as 0, when x + width falls below the next x as a double.
RECURSIVE RowGaps(_, _)
RowGaps(row, i) ==
    IF i >= Len(row) THEN <<>>
    ELSE LET gap == row[i + 1].bounding_box.x
                        - (row[i].bounding_box.x + row[i].bounding_box.width)
         IN  (IF \/ gap > 0
                 \/ gap = 0 /\ \E g \in {GapFloat(row[i], row[i + 1])} : ~g.neg /\ g.bits[1] = 1
              THEN <<gap>> ELSE <<>>) \o RowGaps(row, i + 1)

\* line 423: sum(gaps), the kept gaps added left to right as doubles
RECURSIVE FloatGapSum(_, _, _)
FloatGapSum(row, i, total) ==
    IF i >= Len(row) THEN total
    ELSE FloatGapSum(row, i + 1,
                     CHOOSE next \in {IF ~g.neg /\ g.bits[1] = 1 THEN FloatSum(total, g)
                                      ELSE total : g \in {GapFloat(row[i], row[i + 1])}} : TRUE)

GapDecimalUnits == 10

\* line 428: round(avg_gap, 3) in thousandths, for a double avg_gap within a
\* rounding error of `half` ten-thousandths, halfway between two thousandths
RoundNear(half, avg_gap) ==
    IF FloatBelow(avg_gap, FloatUnits(half)) THEN half \div GapDecimalUnits
    ELSE IF FloatBelow(FloatUnits(half), avg_gap) THEN half \div GapDecimalUnits + 1
    ELSE RoundFloat(half, Unit, Unit \div GapDecimalUnits)

\* lines 423 and 428: round(sum(gaps) / len(gaps), 3) in ten-thousandths, for
\* the kept gaps of a row.  An average halfway between two thousandths is
\* rounded to the side its double lies on.
RoundedAvgGap(row, gaps) ==
    IF gaps = <<>> THEN 0
    ELSE IF 2 * (SumSeq(gaps) % (Len(gaps) * GapDecimalUnits)) # Len(gaps) * GapDecimalUnits
    THEN ((2 * SumSeq(gaps) + Len(gaps) * GapDecimalUnits)
             \div (2 * Len(gaps) * GapDecimalUnits)) * GapDecimalUnits
    ELSE RoundNear(SumSeq(gaps) \div Len(gaps),
                   FloatQuotient(FloatGapSum(row, 1, FloatUnits(0)), FloatOf(Len(gaps), 1))) * GapDecimalUnits

FlexGap == 24

\* _detect_grid_layout taking the first slot's row instead of the fullest row
_detect_grid_layout_FirstRow(ss) ==
    IF Len(ss) < 2 THEN None
    ELSE LET \* rows: bins pairs a y with its row, round(y / tolerance)
             Row(bins, y) == (CHOOSE bin \in bins : bin[1] = y)[2]
             RowOf(bins, b) == LET InRow(s) == Row(bins, s.bounding_box.y) = b
                               IN  SelectSeq(ss, InRow)
             Longest(bins) == SortByX(RowOf(bins, Row(bins, ss[1].bounding_box.y)))
         IN  CHOOSE grid \in
                 {IF Len(row_slots) < 2 THEN None
                  ELSE Some([displayType |-> "grid",
                             gridColumns |-> Len(row_slots),
                             gap |-> RoundedAvgGap(row_slots, RowGaps(row_slots, 1)),
                             alignment |-> "center"]) :
                    row_slots \in {Longest(bins) :
                        bins \in {{<<y, GridBin(y)>> :
                            y \in {ss[k].bounding_box.y : k \in DOMAIN ss}}}}} : TRUE

_detect_grid_layout(ss) ==
    IF Len(ss) < 2 THEN None
    ELSE LET \* rows: bins pairs a y with its row, round(y / tolerance)
             Row(bins, y) == (CHOOSE bin \in bins : bin[1] = y)[2]
             RowOf(bins, b) == LET InRow(s) == Row(bins, s.bounding_box.y) = b
                               IN  SelectSeq(ss, InRow)
             Size(bins, k) == Len(RowOf(bins, Row(bins, ss[k].bounding_box.y)))
             \* max(): the first-inserted bin among those with the most slots
             first(bins) == CHOOSE k \in DOMAIN ss :
                              /\ \A m \in DOMAIN ss : Size(bins, m) <= Size(bins, k)
                              /\ \A m \in 1..(k - 1) : Size(bins, m) < Size(bins, k)
             Longest(bins) == SortByX(RowOf(bins, Row(bins, ss[first(bins)].bounding_box.y)))
         IN  CHOOSE grid \in
                 {IF Len(row_slots) < 2 THEN None
                  ELSE Some([displayType |-> "grid",
                             gridColumns |-> Len(row_slots),
                             gap |-> RoundedAvgGap(row_slots, RowGaps(row_slots, 1)),
                             alignment |-> "center"]) :
                    row_slots \in {Longest(bins) :
                        bins \in {{<<y, GridBin(y)>> :
                            y \in {ss[k].bounding_box.y : k \in DOMAIN ss}}}}} : TRUE

-----------------------------------------------------------------------------
(* Section assembly *)

\* sorted(): the bins in ascending order
RECURSIVE SortedBins(_)
\* SortedBins in descending order
RECURSIVE SortedBins_Descending(_)
SortedBins_Descending(bins) ==
    IF bins = {} THEN <<>>
    ELSE LET greatest == CHOOSE b \in bins : \A c \in bins : b >= c
         IN  <<greatest>> \o SortedBins_Descending(bins \ {greatest})

SortedBins(bins) ==
    IF bins = {} THEN <<>>
    ELSE LET least == CHOOSE b \in bins : \A c \in bins : b <= c
         IN  <<least>> \o SortedBins(bins \ {least})

SeqMapId(ss) == [k \in DOMAIN ss |-> ss[k].id]
SeqMapRole(ss) == [k \in DOMAIN ss |-> ss[k].role]

\* SectionRole with the card test before the hero test
SectionRole_CardFirst(section_slots) ==
    LET section_roles == SeqMapRole(section_slots)
        picked == IF \E k \in DOMAIN section_roles : Contains("card", section_roles[k])
                  THEN "card-grid"
                  ELSE IF Contains("hero", Join(" ", section_roles)) THEN "hero"
                  ELSE IF \E k \in DOMAIN section_roles : Contains("grid", section_roles[k])
                  THEN "card-grid"
                  ELSE "content"
    IN  _normalize_role(picked)

SectionRole(section_slots) ==
    LET section_roles == SeqMapRole(section_slots)
        picked == IF Contains("hero", Join(" ", section_roles)) THEN "hero"
                  ELSE IF \E k \in DOMAIN section_roles : Contains("card", section_roles[k])
                  THEN "card-grid"
                  ELSE IF \E k \in DOMAIN section_roles : Contains("grid", section_roles[k])
                  THEN "card-grid"
                  ELSE "content"
    IN  _normalize_role(picked)

SectionFor(section_slots, section_counter) ==
    LET section_role == SectionRole(section_slots)
        Hinted(grid) == IF grid # None THEN Val(grid)
                        ELSE [displayType |-> "flex", flexDirection |-> "column",
                              gap |-> FlexGap * Unit, alignment |-> "start"]
        HasAnim(s) == s.animations # None
        HasComp(s) == s.component_info # None
        animated == SelectSeq(section_slots, HasAnim)
        componented == SelectSeq(section_slots, HasComp)
        section_animations ==
            [k \in DOMAIN animated |->
                [slotId |-> animated[k].id, animation |-> Val(animated[k].animations)]]
        section_components ==
            [k \in DOMAIN componented |->
                [slotId |-> componented[k].id,
                 component |-> Val(componented[k].component_info)]]
    IN  [id |-> "section-" \o section_role \o "-" \o ToString(section_counter),
         role |-> section_role,
         layout_hints |-> Hinted(_detect_grid_layout(section_slots)),
         slot_ids |-> SeqMapId(section_slots),
         animations |-> IF section_animations # <<>> THEN Some(section_animations) ELSE None,
         components |-> IF section_components # <<>> THEN Some(section_components) ELSE None]

BuildSections(slots) ==
    LET \* sections_by_y: ys pairs a y with its bin, round(y / tolerance)
        SlotsIn(ys, b) == LET InBin(s) == \E y \in ys : y[1] = s.bounding_box.y /\ y[2] = b
                          IN  SelectSeq(slots, InBin)
        Sections(ys, bins) == [k \in DOMAIN bins |-> SectionFor(SlotsIn(ys, bins[k]), k - 1)]
    IN  CHOOSE sections \in
            {Sections(ys, SortedBins({y[2] : y \in ys})) :
                ys \in {{<<y, SectionBin(y)>> :
                    y \in {slots[k].bounding_box.y : k \in DOMAIN slots}}}} : TRUE

-----------------------------------------------------------------------------
(* _detect_visual_groups: greedy clustering keyed by slot id *)

\* threshold = 0.02 and threshold * 3, in ten-thousandths
VisualThreshold == 200
ProximityFactor == 3

\* lines 512-524.  The differences and the thresholds are doubles: a difference
\* of exactly the threshold is compared as the code's doubles compare, 0.02 * 3
\* being the double 0.06.
VisuallyJoined(slot1, slot2) ==
    LET x_diff == Abs(slot1.bounding_box.x - slot2.bounding_box.x)
        y_diff == Abs(slot1.bounding_box.y - slot2.bounding_box.y)
        Joined(horizontal_aligned, vertical_aligned, close_proximity) ==
            /\ (horizontal_aligned \/ vertical_aligned \/ close_proximity)
            /\ (slot1.role = slot2.role \/ close_proximity)
    IN  Joined(IF y_diff # VisualThreshold THEN y_diff < VisualThreshold
               ELSE FloatBelow(FloatDistance(slot1.bounding_box.y, slot2.bounding_box.y),
                               FloatUnits(VisualThreshold)),
               IF x_diff # VisualThreshold THEN x_diff < VisualThreshold
               ELSE FloatBelow(FloatDistance(slot1.bounding_box.x, slot2.bounding_box.x),
                               FloatUnits(VisualThreshold)),
               IF x_diff + y_diff # VisualThreshold * ProximityFactor
               THEN x_diff + y_diff < VisualThreshold * ProximityFactor
               ELSE FloatBelow(FloatSum(FloatDistance(slot1.bounding_box.x,
                                                      slot2.bounding_box.x),
                                        FloatDistance(slot1.bounding_box.y,
                                                      slot2.bounding_box.y)),
                               FloatUnits(VisualThreshold * ProximityFactor)))

\* The inner loop: <<group, processed>> after visiting slots j.. for slot1
\* VisualInner without the `slot2.id in processed` test of line 507
RECURSIVE VisualInner_IgnoreProcessed(_, _, _, _, _)
VisualInner_IgnoreProcessed(slots, slot1, j, group, processed) ==
    IF j > Len(slots) THEN <<group, processed>>
    ELSE IF VisuallyJoined(slot1, slots[j])
         THEN VisualInner_IgnoreProcessed(slots, slot1, j + 1, Append(group, slots[j].id),
                                          processed \cup {slots[j].id})
         ELSE VisualInner_IgnoreProcessed(slots, slot1, j + 1, group, processed)

RECURSIVE VisualInner(_, _, _, _, _)
VisualInner(slots, slot1, j, group, processed) ==
    IF j > Len(slots) THEN <<group, processed>>
    ELSE IF slots[j].id \notin processed /\ VisuallyJoined(slot1, slots[j])
         THEN VisualInner(slots, slot1, j + 1, Append(group, slots[j].id),
                          processed \cup {slots[j].id})
         ELSE VisualInner(slots, slot1, j + 1, group, processed)

RECURSIVE VisualFrom(_, _, _, _, _)
VisualFrom(slots, i, groups, processed, group_counter) ==
    IF i > Len(slots) THEN groups
    ELSE IF slots[i].id \in processed
         THEN VisualFrom(slots, i + 1, groups, processed, group_counter)
    ELSE LET Grouped(inner) ==
                 IF Len(inner[1]) > 1
                 THEN VisualFrom(slots, i + 1,
                                 (("group-" \o ToString(group_counter)) :> inner[1]) @@ groups,
                                 inner[2], group_counter + 1)
                 ELSE VisualFrom(slots, i + 1, groups, inner[2], group_counter)
             \* the inner loop has run once when the outer loop goes on
         IN  CHOOSE gs \in {Grouped(inner) :
                               inner \in {VisualInner(slots, slots[i], i + 1, <<slots[i].id>>,
                                                      processed \cup {slots[i].id})}} : TRUE

_detect_visual_groups(slots) ==
    VisualFrom(slots, 1, [k \in {} |-> <<>>], {}, 0)

-----------------------------------------------------------------------------
(* Repeated-group metadata of the result: slots bucketed by role and index *)

RepeatedGroupsMeta(slots) ==
    LET Rep(s) == s.repeated /\ s.repeated_index # None
        reps == SelectSeq(slots, Rep)
        roles == {reps[k].role : k \in DOMAIN reps}
        IndicesOf(role) == {Val(reps[k].repeated_index) :
                               k \in {m \in DOMAIN reps : reps[m].role = role}}
        IdsOf(role, index) ==
            LET Hit(s) == s.role = role /\ Val(s.repeated_index) = index
            IN  SeqMapId(SelectSeq(reps, Hit))
        Items(role) ==
            LET sorted == SortedBins(IndicesOf(role))
            IN  [k \in DOMAIN sorted |->
                    [index |-> sorted[k], slotIds |-> IdsOf(role, sorted[k])]]
    IN  [key \in {"repeated-" \o r : r \in roles} |->
            LET role == CHOOSE r \in roles : key = "repeated-" \o r
            IN  [role |-> role,
                 count |-> Cardinality(IndicesOf(role)),
                 items |-> Items(role)]]

-----------------------------------------------------------------------------
(* _generate_pattern_summary *)

PatternPrefix == 5

\* PatternSequence dropping every role already seen (full dedup)
RECURSIVE PatternSequence_FullDedup(_, _)
PatternSequence_FullDedup(sections, acc) ==
    IF sections = <<>> THEN acc
    ELSE LET normalized_role == _normalize_role(sections[1].role)
         IN  IF normalized_role \notin Range(acc)
             THEN PatternSequence_FullDedup(Tail(sections), Append(acc, normalized_role))
             ELSE PatternSequence_FullDedup(Tail(sections), acc)

RECURSIVE PatternSequence(_, _)
PatternSequence(sections, acc) ==
    IF sections = <<>> THEN acc
    ELSE LET normalized_role == _normalize_role(sections[1].role)
         IN  IF normalized_role \notin Range(acc) \/ acc[Len(acc)] # normalized_role
             THEN PatternSequence(Tail(sections), Append(acc, normalized_role))
             ELSE PatternSequence(Tail(sections), acc)

_generate_pattern_summary(sections, slots) ==
    LET pattern_sequence == PatternSequence(sections, <<>>)
        features ==
            [hasNavigation |-> \E k \in DOMAIN slots :
                                   Contains("navigation", _normalize_role(slots[k].role)),
             hasHero |-> \E k \in DOMAIN sections :
                             Contains("hero", _normalize_role(sections[k].role)),
             hasCardGrid |-> \E k \in DOMAIN sections :
                                 Contains("card-grid", _normalize_role(sections[k].role)),
             hasFooter |-> \E k \in DOMAIN slots :
                               Contains("footer", _normalize_role(slots[k].role)),
             hasImages |-> \E k \in DOMAIN slots : slots[k].type = "image",
             hasRepeatedGroups |-> \E k \in DOMAIN slots : slots[k].repeated]
        joined == Join("-", SubSeq(pattern_sequence, 1,
                                   IF Len(pattern_sequence) < PatternPrefix
                                   THEN Len(pattern_sequence) ELSE PatternPrefix))
        pattern_type == IF joined = "" THEN "unknown" ELSE joined
        displayTypes == {sections[k].layout_hints.displayType : k \in DOMAIN sections}
        layout_types ==
            [d \in displayTypes |->
                Cardinality({k \in DOMAIN sections : sections[k].layout_hints.displayType = d})]
        \* max(): the first-seen display type among the most frequent
        dominant_layout ==
            IF sections = <<>> THEN "flex"
            ELSE LET k == CHOOSE c \in DOMAIN sections :
                            /\ \A m \in DOMAIN sections :
                                 layout_types[sections[m].layout_hints.displayType]
                                   <= layout_types[sections[c].layout_hints.displayType]
                            /\ \A m \in 1..(c - 1) :
                                 layout_types[sections[m].layout_hints.displayType]
                                   < layout_types[sections[c].layout_hints.displayType]
                 IN  sections[k].layout_hints.displayType
    IN  [patternType |-> pattern_type,
         patternSequence |-> pattern_sequence,
         sectionCount |-> Len(sections),
         slotCount |-> Len(slots),
         features |-> features,
         dominantLayout |-> dominant_layout,
         layoutDistribution |-> layout_types]

-----------------------------------------------------------------------------
(* _infer_screen_type *)

auth_keywords == {"sign in", "sign-in", "signin", "log in", "login", "log-in",
                  "password", "email", "create account", "sign up", "signup", "sign-up"}
auth_classes == {"signin", "login", "auth"}
dashboard_keywords == {"dashboard", "analytics", "metrics", "admin", "admin-panel",
                       "control-panel", "admin panel", "control panel"}

\* _infer_screen_type with the dashboard test moved to the front of the cascade
_infer_screen_type_DashboardFirst(elems, sections) ==
    LET roles == SeqMapRole(sections)
        class_str == Lower(Join(" ", [k \in DOMAIN elems |-> Join(" ", elems[k].class_names)]))
        text_str == Lower(Join(" ", [k \in DOMAIN elems |-> elems[k].text_content]))
        RoleHas(w) == \E k \in DOMAIN roles : Contains(w, roles[k])
    IN  IF \/ \E k \in dashboard_keywords : Contains(k, text_str)
           \/ \E k \in dashboard_keywords : Contains(k, class_str)
        THEN "dashboard"
        ELSE IF \/ \E k \in auth_keywords : Contains(k, text_str)
                \/ \E k \in auth_classes : Contains(k, class_str)
        THEN "auth"
        ELSE IF Contains("service", class_str) \/ RoleHas("service") THEN "services"
        ELSE IF Contains("pricing", class_str) \/ RoleHas("pricing") THEN "pricing"
        ELSE IF Contains("portfolio", class_str) \/ RoleHas("portfolio") THEN "portfolio"
        ELSE IF Contains("blog", class_str) \/ Contains("article", class_str) THEN "blog"
        ELSE IF Contains("landing", class_str) \/ RoleHas("hero") THEN "landing"
        ELSE "page"

_infer_screen_type(elems, sections) ==
    LET roles == SeqMapRole(sections)
        class_str == Lower(Join(" ", [k \in DOMAIN elems |-> Join(" ", elems[k].class_names)]))
        text_str == Lower(Join(" ", [k \in DOMAIN elems |-> elems[k].text_content]))
        RoleHas(w) == \E k \in DOMAIN roles : Contains(w, roles[k])
    IN  IF \/ \E k \in auth_keywords : Contains(k, text_str)
           \/ \E k \in auth_classes : Contains(k, class_str)
        THEN "auth"
        ELSE IF Contains("service", class_str) \/ RoleHas("service") THEN "services"
        ELSE IF Contains("pricing", class_str) \/ RoleHas("pricing") THEN "pricing"
        ELSE IF Contains("portfolio", class_str) \/ RoleHas("portfolio") THEN "portfolio"
        ELSE IF Contains("blog", class_str) \/ Contains("article", class_str) THEN "blog"
        ELSE IF Contains("landing", class_str) \/ RoleHas("hero") THEN "landing"
        ELSE IF \/ \E k \in dashboard_keywords : Contains(k, text_str)
                \/ \E k \in dashboard_keywords : Contains(k, class_str)
        THEN "dashboard"
        ELSE "page"

-----------------------------------------------------------------------------
(* The dictionaries analyze_layout returns.  An optional key is present in *)
(* the record only when the code emits it.                                 *)

Truthy(o) == o # None /\ Val(o) # ""

FallbackWidth == 1920
FallbackHeight == 1000

EmptyGrouping == [repeatedGroups |-> <<>>, visualGroups |-> <<>>, groupCount |-> 0]

ShellSummary(pattern_type) ==
    [patternType |-> pattern_type,
     patternSequence |-> <<>>,
     sectionCount |-> 0,
     slotCount |-> 0,
     features |-> <<>>,
     dominantLayout |-> "flex",
     layoutDistribution |-> <<>>]

\* EmptyShell with the pattern type of the error dictionary
EmptyShell_Unknown(component_id, viewport_width, viewport_height) ==
    [id |-> IF Truthy(component_id) THEN Val(component_id) ELSE "unknown",
     screenType |-> "page",
     viewport |-> [width |-> viewport_width, height |-> viewport_height],
     patternSummary |-> ShellSummary("unknown"),
     grouping |-> EmptyGrouping,
     sections |-> <<>>,
     slots |-> <<>>]

\* the return of lines 672-692: no element was collected
EmptyShell(component_id, viewport_width, viewport_height) ==
    [id |-> IF Truthy(component_id) THEN Val(component_id) ELSE "unknown",
     screenType |-> "page",
     viewport |-> [width |-> viewport_width, height |-> viewport_height],
     patternSummary |-> ShellSummary("empty"),
     grouping |-> EmptyGrouping,
     sections |-> <<>>,
     slots |-> <<>>]

\* the return of the top-level except clause; message is str(e)
ErrorResult(component_id, message) ==
    [id |-> IF Truthy(component_id) THEN Val(component_id) ELSE "unknown",
     screenType |-> "page",
     viewport |-> [width |-> FallbackWidth, height |-> FallbackHeight],
     patternSummary |-> ShellSummary("unknown"),
     grouping |-> EmptyGrouping,
     sections |-> <<>>,
     slots |-> <<>>,
     error |-> message]

FinalId(component_id, component_name) ==
    IF Truthy(component_name)
    THEN Replace(Replace(Lower(Val(component_name)), " ", "-"), "_", "-")
    ELSE IF Truthy(component_id) THEN Val(component_id)
    ELSE "component-001"

SectionOut(s) ==
    [id |-> s.id, role |-> s.role, layoutHints |-> s.layout_hints, slotIds |-> s.slot_ids]
    @@ (IF s.animations # None THEN [animations |-> Val(s.animations)] ELSE <<>>)
    @@ (IF s.components # None THEN [components |-> Val(s.components)] ELSE <<>>)

\* SlotOut emitting the repeated keys for every slot
SlotOut_AlwaysIndex(s) ==
    [id |-> s.id, type |-> s.type, role |-> s.role, boundingBox |-> s.bounding_box,
     repeated |-> s.repeated, repeatedIndex |-> s.repeated_index]
    @@ (IF s.aspect # None /\ Val(s.aspect) # "" THEN [aspect |-> Val(s.aspect)] ELSE <<>>)
    @@ (IF s.animations # None THEN [animations |-> Val(s.animations)] ELSE <<>>)
    @@ (IF s.component_info # None THEN [componentInfo |-> Val(s.component_info)] ELSE <<>>)

SlotOut(s) ==
    [id |-> s.id, type |-> s.type, role |-> s.role, boundingBox |-> s.bounding_box]
    @@ (IF s.aspect # None /\ Val(s.aspect) # "" THEN [aspect |-> Val(s.aspect)] ELSE <<>>)
    @@ (IF s.repeated
        THEN [repeated |-> s.repeated, repeatedIndex |-> s.repeated_index] ELSE <<>>)
    @@ (IF s.animations # None THEN [animations |-> Val(s.animations)] ELSE <<>>)
    @@ (IF s.component_info # None THEN [componentInfo |-> Val(s.component_info)] ELSE <<>>)

\* lines 885-914: the grouping metadata of the final slots
GroupingOf(slots) ==
    LET Grouping(visual_groups) ==
            [repeatedGroups |-> RepeatedGroupsMeta(slots),
             visualGroups |-> visual_groups,
             groupCount |-> Cardinality(DOMAIN visual_groups)]
    IN  Grouping(_detect_visual_groups(slots))

\* lines 694-962: the pipeline on a non-empty list of collected elements
LayoutOf(elems, component_id, component_name, viewport_width, viewport_height) ==
    \* lines 694, 700 and 812: each stage computed once from the stage before it
    CHOOSE layout \in
        UNION {UNION {{[id |-> FinalId(component_id, component_name),
                        screenType |-> _infer_screen_type(sig, sections),
                        viewport |-> [width |-> viewport_width, height |-> viewport_height],
                        patternSummary |-> _generate_pattern_summary(sections, slots),
                        grouping |-> GroupingOf(slots),
                        sections |-> [k \in DOMAIN sections |-> SectionOut(sections[k])],
                        slots |-> [k \in DOMAIN slots |-> SlotOut(slots[k])]] :
                          sections \in {BuildSections(slots)}} :
                         slots \in {BuildSlots(sig, viewport_width, viewport_height)}} :
                  sig \in {significant_elements(elems)}} : TRUE

-----------------------------------------------------------------------------
(* analyze_layout as a state machine: one step per accessor call.  A step   *)
(* is a function of the locals of the invocation, the page accessor and the *)
(* arguments, so that any number of invocations can take it.                *)

MaxScan == 1000

\* TryBlockCalls with the readiness wait issued before the try block
TryBlockCalls_WaitOutside == {"wait_for_timeout", "viewport_size", "locator"}

\* the page-level accessor calls made inside the try block of lines 632-964
TryBlockCalls == {"wait_for_load_state", "wait_for_timeout", "viewport_size", "locator"}

\* the accessor calls made on one element handle, in the order lines 658 and
\* 220-269 make them
CallOrder ==
    <<"tag_check", "tagName", "bounding_box", "textContent", "classList", "id", "role",
      "is_visible", "children", "computed_styles", "detect_animations", "detect_component">>

HandleCalls == Range(CallOrder)

\* the calls whose failure is swallowed inside _detect_animations / _detect_component
InnerGuardedCalls == {"detect_animations", "detect_component"}

\* lines 655-667, one accessor call of the collection loop: the tag check of
\* line 658 on the next handle when st is at the head of the loop, otherwise the
\* call st.pc of _get_element_info on the handle in progress.  The call raises
\* when the handle fails on it or the accessor is closed.  The handle is
\* finished when the call raised (lines 306-308, 665-667), except inside
\* _detect_animations and _detect_component, which then yield None, when the
\* handle is excluded (660), has no box (223) or is hidden (247), and after the
\* last call; CollectOne then appends it or not.
CallOnHandle(st, pg) ==
    LET call == IF st.pc = "collect" THEN "tag_check" ELSE st.pc
        h == IF st.pc = "collect" THEN st.handles[st.idx + 1] ELSE Val(st.current)
        raises == Raises(h, call) \/ pg.fail = "closed"
        \* the handle as its calls have answered so far
        seen == IF ~raises THEN h
                ELSE IF call = "detect_animations" THEN [h EXCEPT !.anim = None]
                ELSE IF call = "detect_component" THEN [h EXCEPT !.comp = None]
                ELSE [h EXCEPT !.fail = call]
        finished ==
            CASE call = "tag_check" -> raises \/ h.tag \in excluded_tags
              [] call = "bounding_box" -> raises \/ BoxMissing(h.box)
              [] call = "is_visible" -> raises \/ ~h.visible
              [] call = "detect_animations" -> FALSE
              [] call = "detect_component" -> TRUE
              [] OTHER -> raises
        rank == CHOOSE k \in DOMAIN CallOrder : CallOrder[k] = call
    IN  IF finished
        THEN [st EXCEPT !.elements = CollectOne(@, seen), !.idx = @ + 1,
                        !.pc = "collect", !.current = None]
        ELSE [st EXCEPT !.pc = CallOrder[rank + 1], !.current = Some(seen)]

\* lines 636-654, the next page-level call of an invocation with locals st on
\* the accessor pg.  The call raises when pg fails on it or has been closed;
\* the except clause of line 964 then returns the error dictionary (an
\* exception raised outside the try block would reach the caller).
PageStep(st, pg, ag) ==
    LET PageCall(call, next) ==
            IF pg.fail \notin {call, "closed"} THEN next
            ELSE IF call \in TryBlockCalls
            THEN [st EXCEPT !.pc = "done",
                            !.result = Some(ErrorResult(ag.component_id, pg.msg))]
            ELSE [st EXCEPT !.pc = "raised"]
    IN  CASE st.pc = "start" ->
                \* line 636: page.wait_for_load_state
                PageCall("wait_for_load_state", [st EXCEPT !.pc = "timeout"])
          [] st.pc = "timeout" ->
                \* line 637: page.wait_for_timeout
                PageCall("wait_for_timeout", [st EXCEPT !.pc = "viewport"])
          [] st.pc = "viewport" ->
                \* lines 640-642: page.viewport_size with the 1920 x 1000 fallback
                PageCall("viewport_size",
                         [st EXCEPT !.pc = "enumerate",
                                    !.viewport =
                                        IF pg.viewport # None
                                        THEN [width |-> Val(pg.viewport).width,
                                              height |-> Val(pg.viewport).height]
                                        ELSE [width |-> FallbackWidth,
                                              height |-> FallbackHeight]])
          [] st.pc = "enumerate" ->
                \* lines 647-654: page.locator('body *').all()[:1000], elements = []
                PageCall("locator",
                         [st EXCEPT !.pc = "collect",
                                    !.handles = SubSeq(pg.handles, 1,
                                                       IF Len(pg.handles) < MaxScan
                                                       THEN Len(pg.handles) ELSE MaxScan),
                                    !.elements = <<>>])

\* lines 669-962, the loop is over: the invocation returns the empty shell or
\* the result of the full pipeline; no accessor call is made
ReturnLayout(st, ag) ==
    [st EXCEPT !.pc = "done",
               !.result = Some(IF st.elements = <<>>
                               THEN EmptyShell(ag.component_id, st.viewport.width,
                                               st.viewport.height)
                               ELSE LayoutOf(st.elements, ag.component_id,
                                             ag.component_name, st.viewport.width,
                                             st.viewport.height))]

\* the next step of an invocation with locals st on the accessor pg
StepOf(st, pg, ag) ==
    IF st.pc \in {"start", "timeout", "viewport", "enumerate"} THEN PageStep(st, pg, ag)
    ELSE IF st.pc = "collect" /\ st.idx = Len(st.handles) THEN ReturnLayout(st, ag)
    ELSE CallOnHandle(st, pg)

\* the locals of the invocation the variables pc, viewport, ... hold
Locals ==
    [pc |-> pc, viewport |-> viewport, handles |-> handles, idx |-> idx,
     elements |-> elements, current |-> current, result |-> result]

\* that invocation takes the step that leaves its locals as `next`
Step(next) ==
    /\ \E st \in {next} :
          /\ pc' = st.pc
          /\ viewport' = st.viewport
          /\ handles' = st.handles
          /\ idx' = st.idx
          /\ elements' = st.elements
          /\ current' = st.current
          /\ result' = st.result
    /\ UNCHANGED <<page, args, closedAt, calls, heap, fnVars>>

\* line 636: page.wait_for_load_state('networkidle', timeout=30000), and then,
\* as a step of its own, line 637: page.wait_for_timeout(1000)
WaitForPage == pc \in {"start", "timeout"} /\ Step(PageStep(Locals, page, args))

\* lines 640-642: page.viewport_size
ReadViewport == pc = "viewport" /\ Step(PageStep(Locals, page, args))

\* lines 647-654: page.locator('body *').all()[:1000]
EnumerateElements == pc = "enumerate" /\ Step(PageStep(Locals, page, args))

\* lines 655-667: one accessor call on one handle of the collection loop
CollectElement ==
    /\ pc \in {"collect"} \cup HandleCalls
    /\ idx < Len(handles)
    /\ Step(CallOnHandle(Locals, page))

\* lines 669-962: the loop is over; empty shell or the full pipeline
Analyze ==
    /\ pc = "collect"
    /\ idx = Len(handles)
    /\ Step(ReturnLayout(Locals, args))

-----------------------------------------------------------------------------
(* Inputs: the pages analyze_layout is run on *)

MaxHandles == 2

Box(x, y, w, h) == Some([x |-> x, y |-> y, width |-> w, height |-> h])

\* a visible <div> with text, 100 x 100 at the top left
BaseHandle ==
    [tag |-> "div", box |-> Box(0, 0, 100, 100), text |-> "hi", classes |-> <<>>,
     id |-> None, role |-> None, visible |-> TRUE, children |-> FALSE,
     styles |-> [display |-> "block", backgroundImage |-> "none"],
     anim |-> None, comp |-> None, fail |-> "none"]

HandleDomain ==
    {BaseHandle}
    \cup {[BaseHandle EXCEPT !.tag = t] : t \in {"img", "h1", "span", "script", "nav"}}
    \cup {[BaseHandle EXCEPT !.box = b] :
            b \in {None, Box(0, 0, 0, 50), Box(0, 0, 10, 10), Box(0, 0, 30, 30),
                   Box(0, 400, 100, 100), Box(300, 0, 109, 100)}}
    \cup {[BaseHandle EXCEPT !.tag = "img", !.box = b] :
            b \in {Box(0, 0, 20, 1000), Box(0, 400, 1600, 900), Box(0, 0, 30, 30)}}
    \cup {[BaseHandle EXCEPT !.children = TRUE, !.box = b] :
            b \in {Box(0, 0, 950, 800), Box(0, 0, 100, 100)}}
    \cup {[BaseHandle EXCEPT !.text = t] : t \in {"", " ", "\n", "\n  hi\t"}}
    \cup {[BaseHandle EXCEPT !.id = Some("a"), !.box = b] :
            b \in {Box(0, 0, 100, 100), Box(0, 400, 100, 100)}}
    \cup {[BaseHandle EXCEPT !.id = Some("content-block-1")]}
    \cup {[BaseHandle EXCEPT !.visible = FALSE]}
    \cup {[BaseHandle EXCEPT !.fail = c] : c \in HandleCalls}
    \cup {[BaseHandle EXCEPT !.classes = c] : c \in {<<"Hero">>, <<"card", "grid">>}}
    \cup {[BaseHandle EXCEPT !.anim = Some("fade"), !.comp = Some("widget"), !.fail = c] :
            c \in {"none", "detect_animations", "detect_component"}}
    \cup {[BaseHandle EXCEPT !.box = Box(-50, -50, 100, 100)]}
    \cup {[BaseHandle EXCEPT !.tag = "h1", !.box = b] :
            b \in {Box(0, 0, 10, 10), Box(0, 0, 30, 30)}}
    \cup {[BaseHandle EXCEPT !.tag = "h4"],
          [BaseHandle EXCEPT !.tag = "a", !.classes = <<"cta">>],
          [BaseHandle EXCEPT !.tag = "footer", !.classes = <<"footer">>],
          [BaseHandle EXCEPT !.box = Box(12, 25, 84, 95)]}

RECURSIVE SeqsUpTo(_, _)
SeqsUpTo(S, n) ==
    IF n = 0 THEN {<<>>}
    ELSE LET shorter == SeqsUpTo(S, n - 1)
         IN  shorter \cup {Append(q, e) : q \in {r \in shorter : Len(r) = n - 1}, e \in S}

PageCalls == {"wait_for_load_state", "wait_for_timeout", "viewport_size", "locator"}

Viewports == {None, Some([width |-> 1000, height |-> 1000]), Some([width |-> 0, height |-> 0]),
              Some([width |-> 1920, height |-> 800])}

ArgsDomain ==
    {[component_id |-> None, component_name |-> None],
     [component_id |-> Some("c1"), component_name |-> None],
     [component_id |-> Some("c1"), component_name |-> Some("My_Hero Card")]}

NoArgs == [component_id |-> None, component_name |-> None]

\* pages whose accessor calls at page level all succeed, and pages on which one raises;
\* the first two handles of a page are any of HandleDomain, and further ones are
\* those that answer every call of lines 220-261 and carry no id, class or
\* other text
Pages ==
    {[fail |-> "none", msg |-> "", viewport |-> Some([width |-> 1000, height |-> 1000]),
      handles |-> hs] :
        hs \in {q \in SeqsUpTo(HandleDomain, MaxHandles) :
                   \A k \in 3..Len(q) :
                      /\ q[k].fail \in {"none", "children"}
                      /\ q[k].text = "hi" /\ q[k].id = None /\ q[k].classes = <<>>}}
    \cup {[fail |-> "none", msg |-> "", viewport |-> v, handles |-> hs] :
            v \in Viewports, hs \in SeqsUpTo(HandleDomain, 1)}
    \cup {[fail |-> c, msg |-> m, viewport |-> Some([width |-> 1000, height |-> 1000]),
           handles |-> hs] :
            c \in PageCalls, m \in {"", "Target closed"}, hs \in {<<>>, <<BaseHandle>>}}

Init ==
    /\ pc = "start"
    /\ page \in Pages
    /\ args \in (IF Len(page.handles) <= 1 THEN ArgsDomain ELSE {NoArgs})
    /\ viewport = [width |-> 0, height |-> 0]
    /\ handles = <<>>
    /\ idx = 0
    /\ elements = <<>>
    /\ current = None
    /\ result = None
    /\ closedAt = None
    /\ calls = <<>>
    /\ heap = <<>>
    /\ fn = "analyze_layout"
    /\ fnIn = None
    /\ fnOut = None

Next ==
    \/ WaitForPage
    \/ ReadViewport
    \/ EnumerateElements
    \/ CollectElement
    \/ Analyze

Spec == Init /\ [][Next]_vars

-----------------------------------------------------------------------------
(* _detect_repeated_groups on its own: lists of element boxes *)

MaxGroupElems == 3


InitGroups ==
    LET GroupElements ==
            {[bounding_box |-> [x |-> 0, y |-> 0, width |-> w, height |-> h]] :
                w \in {91, 100, 109, 118}, h \in {100, 150}}
    IN  /\ pc = "function"
        /\ page = None
        /\ args = NoArgs
        /\ viewport = [width |-> 0, height |-> 0]
        /\ handles = <<>>
        /\ idx = 0
        /\ elements = <<>>
        /\ current = None
        /\ result = None
        /\ closedAt = None
        /\ calls = <<>>
        /\ heap = <<>>
        /\ fn = "_detect_repeated_groups"
        /\ fnIn \in SeqsUpTo(GroupElements, MaxGroupElems)
        /\ fnOut = None

ApplyRepeatedGroups ==
    /\ fn = "_detect_repeated_groups"
    /\ fnOut = None
    /\ fnOut' = Some(_detect_repeated_groups(fnIn))
    /\ UNCHANGED <<layoutVars, fn, fnIn>>

SpecGroups == InitGroups /\ [][ApplyRepeatedGroups]_vars

-----------------------------------------------------------------------------
(* _generate_pattern_summary on its own: lists of sections *)

MaxSections == 4

\* the function-level states share everything but fn and fnIn
FnInit(name) ==
    /\ pc = "function"
    /\ page = None
    /\ args = NoArgs
    /\ viewport = [width |-> 0, height |-> 0]
    /\ handles = <<>>
    /\ idx = 0
    /\ elements = <<>>
    /\ current = None
    /\ result = None
    /\ closedAt = None
    /\ calls = <<>>
    /\ heap = <<>>
    /\ fn = name
    /\ fnOut = None

InitPattern ==
    LET SectionRoles == {"hero", "hero-split", "content", "card-grid"}
        \* a section as far as _generate_pattern_summary reads it
        PatternSections ==
            {[role |-> r,
              layout_hints |-> [displayType |-> IF r = "card-grid" THEN "grid" ELSE "flex"]] :
                r \in SectionRoles}
    IN  /\ FnInit("_generate_pattern_summary")
        /\ fnIn \in {[sections |-> ss, slots |-> <<>>] :
                        ss \in SeqsUpTo(PatternSections, MaxSections)}

ApplyPatternSummary ==
    /\ fn = "_generate_pattern_summary"
    /\ fnOut = None
    /\ fnOut' = Some(_generate_pattern_summary(fnIn.sections, fnIn.slots))
    /\ UNCHANGED <<layoutVars, fn, fnIn>>

SpecPattern == InitPattern /\ [][ApplyPatternSummary]_vars

-----------------------------------------------------------------------------
(* _infer_semantic_role run on its own *)

InitRole ==
    LET RoleElements ==
            {[tag |-> t, class_names |-> c, text_content |-> x, has_children |-> ch,
              computed_styles |-> [display |-> d], role |-> r, element_type |-> ty] :
                t \in {"div", "nav", "h2", "h5", "button", "img"},
                c \in {<<>>, <<"Card">>, <<"grid">>, <<"hero">>, <<"btn", "cta">>, <<"navbar">>},
                x \in {"hi", "Hero", "card"}, ch \in BOOLEAN,
                d \in {"block", "grid"}, r \in {None, Some("navigation")},
                ty \in {"container", "text", "image"}}
        \* element_type as lines 275-282 derive it from the tag alone
        RoleTypeOf(tag) ==
            IF tag = "img" THEN "image"
            ELSE IF tag \in {"h2", "h5", "button"} THEN "text"
            ELSE "container"
    IN  /\ FnInit("_infer_semantic_role")
        /\ fnIn \in {[element |-> e, position_in_viewport |-> p, is_large |-> l,
                      has_headline |-> h] :
                        e \in {el \in RoleElements :
                                 el.element_type \in {RoleTypeOf(el.tag), "image"}},
                        p \in {[n |-> 0, d |-> 1000], [n |-> 400, d |-> 1000]},
                        l \in BOOLEAN, h \in BOOLEAN}

ApplyInferRole ==
    /\ fn = "_infer_semantic_role"
    /\ fnOut = None
    /\ fnOut' = Some(_infer_semantic_role(fnIn.element, fnIn.position_in_viewport,
                                          fnIn.is_large, fnIn.has_headline))
    /\ UNCHANGED <<layoutVars, fn, fnIn>>

SpecRole == InitRole /\ [][ApplyInferRole]_vars

-----------------------------------------------------------------------------
(* _detect_visual_groups and the grouping metadata run on their own *)

MaxVisualSlots == 4

\* a slot has one of four ids and one of three places: a role and a normalized x
\* on one horizontal line, x = 0 and x = 5000 being too far apart to count as close;
\* and pairs of slots at a distance of the threshold itself: 0.3 - 0.28 is a
\* double just below 0.02, and (0.5 - 0.46) + 0.02 one just below 0.06
InitVisual ==
    LET VisualSlots ==
            {[id |-> i, role |-> p[1],
              bounding_box |-> [x |-> p[2], y |-> 0, width |-> 1000, height |-> 1000],
              repeated |-> FALSE, repeated_index |-> None] :
                i \in {"a", "b", "c", "d"},
                p \in {<<"content", 0>>, <<"content", 5000>>, <<"image", 5000>>}}
        ThresholdSlots ==
            {[id |-> p[1], role |-> p[2],
              bounding_box |-> [x |-> p[3], y |-> p[4], width |-> 1000, height |-> 1000],
              repeated |-> FALSE, repeated_index |-> None] :
                p \in {<<"a", "content", 5000, 0>>, <<"b", "image", 4600, 200>>,
                       <<"c", "content", 3000, 1000>>, <<"d", "content", 2800, 5000>>}}
    IN  /\ FnInit("_detect_visual_groups")
        /\ fnIn \in SeqsUpTo(VisualSlots, MaxVisualSlots) \cup SeqsUpTo(ThresholdSlots, 2)

ApplyVisualGroups ==
    /\ fn = "_detect_visual_groups"
    /\ fnOut = None
    /\ fnOut' = Some(GroupingOf(fnIn))
    /\ UNCHANGED <<layoutVars, fn, fnIn>>

SpecVisual == InitVisual /\ [][ApplyVisualGroups]_vars

-----------------------------------------------------------------------------
(* _normalize_role run on its own, and again on its own result *)

\* every name the table of lines 438-475 lists, the canonical names, and names
\* the table does not know, in lower, mixed and upper case
InitNormalize ==
    LET NormalizeInputs ==
            {"hero", "hero-split", "hero-section", "card", "card-item", "card-grid",
             "content", "content-block", "content-section", "content-area",
             "nav", "navigation", "navbar", "menu",
             "headline", "heading", "title", "h1", "h2", "h3",
             "subhead", "subheading", "subtitle", "h4", "h5", "h6",
             "body", "paragraph", "text", "p", "body-text",
             "image", "img", "picture", "photo", "hero-image", "hero-img",
             "cta", "button", "call-to-action", "action", "footer", "foot",
             "", " ", "sidebar", "Sidebar", "Hero", "HERO-SPLIT", "Card-Item", "CARD-GRID", "H4",
             "Body", "Hero Image", "hero image", " hero", "grid", "Menu"}
    IN  /\ FnInit("_normalize_role")
        /\ fnIn \in NormalizeInputs

\* _normalize_role(role); fnOut lists the successive results
ApplyNormalizeRole ==
    /\ fn = "_normalize_role"
    /\ fnOut = None
    /\ fnOut' = Some(<<_normalize_role(fnIn)>>)
    /\ UNCHANGED <<layoutVars, fn, fnIn>>

\* _normalize_role applied to a role it returned, as lines 543, 549-552 and 838 do
ApplyNormalizeRoleAgain ==
    /\ fn = "_normalize_role"
    /\ fnOut # None
    /\ Len(Val(fnOut)) = 1
    /\ fnOut' = Some(Append(Val(fnOut), _normalize_role(Val(fnOut)[1])))
    /\ UNCHANGED <<layoutVars, fn, fnIn>>

NextNormalize == ApplyNormalizeRole \/ ApplyNormalizeRoleAgain

SpecNormalize == InitNormalize /\ [][NextNormalize]_vars

-----------------------------------------------------------------------------
(* _infer_screen_type on its own: lists of elements and of sections *)

MaxScreenElems == 2

InitScreen ==
    LET ScreenTexts == {"hi", "Sign in to your Dashboard", "Admin Dashboard"}
        ScreenClasses == {<<>>, <<"service-card">>, <<"pricing">>, <<"portfolio">>,
                          <<"blog-post">>, <<"landing">>, <<"Login-Form", "box">>}
        \* an element as far as _infer_screen_type reads it
        ScreenElements ==
            {[class_names |-> c, text_content |-> t] : c \in ScreenClasses, t \in ScreenTexts}
        ScreenSections ==
            {[role |-> r] : r \in {"hero", "content", "services", "pricing", "portfolio"}}
    IN  /\ FnInit("_infer_screen_type")
        /\ fnIn \in {[elements |-> es, sections |-> ss] :
                        es \in SeqsUpTo(ScreenElements, MaxScreenElems),
                        ss \in SeqsUpTo(ScreenSections, 1)}

ApplyScreenType ==
    /\ fn = "_infer_screen_type"
    /\ fnOut = None
    /\ fnOut' = Some(_infer_screen_type(fnIn.elements, fnIn.sections))
    /\ UNCHANGED <<layoutVars, fn, fnIn>>

SpecScreen == InitScreen /\ [][ApplyScreenType]_vars

-----------------------------------------------------------------------------
(* _detect_grid_layout on its own: lists of slots with normalized boxes *)

MaxGridSlots == 4

\* a slot as far as _detect_grid_layout reads it, 0.2 wide, at x = 0.0, 0.25,
\* 0.5, 0.75 and y = 0.0, 0.02 (the row of 0.0), 0.06; and rows whose gaps fall
\* on the cases of double arithmetic: 0.6375 + 0.2 is a double just below
\* 0.8375, and a gap of 0.1875 is halfway between two thousandths; and slots
\* far down the page, 10.575 / 0.05 being a double below 211.5
InitGrid ==
    LET GridSlots ==
            {[bounding_box |-> [x |-> x, y |-> y, width |-> 2000, height |-> 1000]] :
                x \in {0, 2500, 5000, 7500}, y \in {0, 200, 600}}
        CloseSlots ==
            {[bounding_box |-> [x |-> x, y |-> 0, width |-> 2000, height |-> 1000]] :
                x \in {2500, 6375, 8375}}
        FarSlots ==
            {[bounding_box |-> [x |-> x, y |-> y, width |-> 2000, height |-> 1000]] :
                x \in {0, 2500}, y \in {10575, 10600, 10625}}
    IN  /\ FnInit("_detect_grid_layout")
        /\ fnIn \in SeqsUpTo(GridSlots, MaxGridSlots) \cup SeqsUpTo(CloseSlots, 3)
                        \cup SeqsUpTo(FarSlots, 2)

ApplyGridLayout ==
    /\ fn = "_detect_grid_layout"
    /\ fnOut = None
    /\ fnOut' = Some(_detect_grid_layout(fnIn))
    /\ UNCHANGED <<layoutVars, fn, fnIn>>

SpecGrid == InitGrid /\ [][ApplyGridLayout]_vars

-----------------------------------------------------------------------------
(* _simplify_ratio on its own: pixel widths and heights *)

MaxRatioSide == 30

\* every box up to MaxRatioSide square (height 0 included), widths against the
\* height 101 for ratios in steps of about 0.01 and against the height 100 for
\* ratios in steps of 0.01 exactly, where a ratio can differ from a match by the
\* tolerance itself, and the documented examples
RatioInputs ==
    {<<w, h>> : w \in 0..MaxRatioSide, h \in 0..MaxRatioSide}
    \cup {<<w, 101>> : w \in 0..(8 * MaxRatioSide)}
    \cup {<<w, 100>> : w \in 0..(8 * MaxRatioSide)}
    \cup {<<1600, 900>>, <<500, 500>>, <<37, 500>>, <<161, 100>>, <<191, 114>>}

InitRatio ==
    /\ FnInit("_simplify_ratio")
    /\ fnIn \in {[width |-> i[1], height |-> i[2]] : i \in RatioInputs}

ApplySimplifyRatio ==
    /\ fn = "_simplify_ratio"
    /\ fnOut = None
    /\ fnOut' = Some(_simplify_ratio(fnIn.width, fnIn.height))
    /\ UNCHANGED <<layoutVars, fn, fnIn>>

SpecRatio == InitRatio /\ [][ApplySimplifyRatio]_vars

-----------------------------------------------------------------------------
(* Three invocations of analyze_layout running at once, their accessor     *)
(* calls interleaved in every order.  The first two are given accessors     *)
(* that present the same page, and the same arguments; the third works on   *)
(* another page with other arguments.  Each invocation has its locals in    *)
(* `calls`; the list `elements` it fills is a cell of `heap`, which all of  *)
(* them read and write, and its local holds the index of the cell.          *)

MaxPairHandles == 1

\* NewElements with one list that every invocation uses
NewElements_Shared(cells) == 1

\* line 654: `elements = []` makes a list that no other invocation holds, the
\* next free cell of the heap
NewElements(cells) == Len(cells) + 1

\* invocation i takes its next step: one call on its page accessor and the
\* statements up to the next, which touch only its locals and the list its
\* local `elements` refers to; that list is read from the heap before the step
\* and written back after it.  A step creates the list (line 654), appends to
\* it once (line 663) or only reads it (lines 671-962); as long as no two
\* invocations hold the same list, which C19 checks in every state, running
\* the statements of their steps in a finer order gives no other outcome.
InvocationStep(i) ==
    LET held == calls[i].local.elements
        view == [calls[i].local EXCEPT !.elements = IF held = None THEN <<>>
                                                     ELSE heap[Val(held)]]
        creates == calls[i].local.pc = "enumerate"
    IN  /\ calls[i].local.pc \notin {"done", "raised"}
        /\ \E st \in {StepOf(view, calls[i].page, calls[i].args)} :
             \E ref \in {IF creates /\ st.pc = "collect" THEN Some(NewElements(heap))
                         ELSE held} :
                /\ calls' = [calls EXCEPT ![i].local = [st EXCEPT !.elements = ref]]
                /\ heap' = IF ref = None THEN heap
                           ELSE IF Val(ref) > Len(heap) THEN Append(heap, st.elements)
                           ELSE [heap EXCEPT ![Val(ref)] = st.elements]
        /\ UNCHANGED <<pc, page, args, viewport, handles, idx, elements, current, result,
                       closedAt, fnVars>>

InitPair ==
    LET PairHandles == {BaseHandle, [BaseHandle EXCEPT !.tag = "img"]}
        Open(hs) == [fail |-> "none", msg |-> "",
                     viewport |-> Some([width |-> 1000, height |-> 1000]), handles |-> hs]
        \* what the first two invocations are given
        PairInputs ==
            {[page |-> Open(hs), args |-> NoArgs] : hs \in SeqsUpTo(PairHandles, MaxPairHandles)}
            \cup {[page |-> [Open(<<BaseHandle>>) EXCEPT !.fail = "viewport_size",
                                                         !.msg = "Target closed"],
                   args |-> NoArgs]}
        \* what the third is given
        OtherInputs ==
            {[page |-> Open(<<[BaseHandle EXCEPT !.tag = "h1",
                                                 !.box = Box(0, 400, 100, 100)]>>),
              args |-> [component_id |-> Some("c1"), component_name |-> None]],
             [page |-> [Open(<<>>) EXCEPT !.viewport = None],
              args |-> [component_id |-> Some("c1"), component_name |-> Some("My_Hero Card")]]}
        \* the locals of an invocation that has not started
        FreshInvocation ==
            [pc |-> "start", viewport |-> [width |-> 0, height |-> 0], handles |-> <<>>,
             idx |-> 0, elements |-> None, current |-> None, result |-> None]
        Call(input) == [page |-> input.page, args |-> input.args, local |-> FreshInvocation]
    IN  /\ pc = "idle"
        /\ page = None
        /\ args = NoArgs
        /\ viewport = [width |-> 0, height |-> 0]
        /\ handles = <<>>
        /\ idx = 0
        /\ elements = <<>>
        /\ current = None
        /\ result = None
        /\ closedAt = None
        /\ calls \in {<<Call(same), Call(same), Call(other)>> :
                        same \in PairInputs, other \in OtherInputs}
        /\ heap = <<>>
        /\ fn = "analyze_layout"
        /\ fnIn = None
        /\ fnOut = None

NextPair == \E i \in DOMAIN calls : InvocationStep(i)

SpecPair == InitPair /\ [][NextPair]_vars

-----------------------------------------------------------------------------
(* analyze_layout on a page accessor that its caller closes while it runs *)

\* the caller closes the accessor, at any moment before analyze_layout has
\* returned: every accessor call made from then on raises
ClosePage ==
    /\ pc \notin {"done", "raised"}
    /\ page.fail = "none"
    /\ page' = [page EXCEPT !.fail = "closed", !.msg = "Target closed"]
    /\ closedAt' = Some([pc |-> pc, elements |-> elements, current |-> current])
    /\ UNCHANGED <<pc, args, viewport, handles, idx, elements, current, result,
                   calls, heap, fnVars>>

\* pages of a few handles, and a page of one handle more than the scan visits:
\* a <div>, then <script> elements, then a <div>
ClosePages ==
    LET CloseHandles ==
            {BaseHandle,
             [BaseHandle EXCEPT !.tag = "h1", !.box = Box(0, 400, 100, 100)],
             [BaseHandle EXCEPT !.anim = Some("fade"), !.comp = Some("widget")],
             [BaseHandle EXCEPT !.fail = "children"],
             [BaseHandle EXCEPT !.visible = FALSE]}
        \* a <script> element: line 658 reads its tag and line 659 skips it, so it
        \* is asked for nothing else and only that answer is recorded
        ScriptHandle == [tag |-> "script", fail |-> "none"]
        Open(hs) == [fail |-> "none", msg |-> "",
                     viewport |-> Some([width |-> 1000, height |-> 1000]), handles |-> hs]
    IN  {Open(hs) : hs \in SeqsUpTo(CloseHandles, MaxHandles)}
        \cup {Open([k \in 1..(MaxScan + 1) |->
                       IF k \in {1, MaxScan + 1} THEN BaseHandle ELSE ScriptHandle])}

InitClose ==
    /\ pc = "start"
    /\ page \in ClosePages
    /\ args = [component_id |-> Some("c1"), component_name |-> None]
    /\ viewport = [width |-> 0, height |-> 0]
    /\ handles = <<>>
    /\ idx = 0
    /\ elements = <<>>
    /\ current = None
    /\ result = None
    /\ closedAt = None
    /\ calls = <<>>
    /\ heap = <<>>
    /\ fn = "analyze_layout"
    /\ fnIn = None
    /\ fnOut = None

NextClose ==
    \/ WaitForPage
    \/ ReadViewport
    \/ EnumerateElements
    \/ CollectElement
    \/ Analyze
    \/ ClosePage

\* analyze_layout is one synchronous call: once entered, its next statement runs,
\* so each of its steps is weakly fair.  The last conjunct is WF_vars(Analyze)
\* with ENABLED written out: Analyze is enabled exactly when the loop is over.
SpecClose ==
    /\ InitClose
    /\ [][NextClose]_vars
    /\ WF_vars(WaitForPage \/ ReadViewport \/ EnumerateElements \/ CollectElement)
    /\ ([]<>~(pc = "collect" /\ idx = Len(handles)) \/ []<><<Analyze>>_vars)

-----------------------------------------------------------------------------
(* Properties of the result of analyze_layout *)

Returned == pc = "done" /\ result # None
R == Val(result)

\* the run met no page-level failure and went through the pipeline
Completed == Returned /\ page.fail = "none"

TopLevelKeys == {"id", "screenType", "viewport", "patternSummary", "grouping",
                 "sections", "slots"}

\* the elements that become slots, in slot order (the code's slot_to_element)
Eligible(element) ==
    SlotFor(element, 0, 0, [k \in {} |-> <<>>], viewport.width, viewport.height) # None
SlotSources == SelectSeq(significant_elements(elements), Eligible)

\* the collected elements that carry a DOM id carry pairwise distinct ones
DistinctDomIds ==
    \A i, j \in DOMAIN elements :
        i # j /\ elements[i].id # None => elements[i].id # elements[j].id

\* C1: in every returned result the ids of the top-level slots are pairwise
\* distinct.  Stated here for the pages most favourable to it, those whose
\* elements have pairwise distinct DOM ids.
C1_SlotIdsDistinct ==
    Returned /\ DistinctDomIds =>
        \A i, j \in DOMAIN R.slots : i # j => R.slots[i].id # R.slots[j].id

\* C2 as stated: a slot carries the `aspect` key if and only if its type is image.
C2_AspectIffImage ==
    Returned =>
        \A k \in DOMAIN R.slots :
            ("aspect" \in DOMAIN R.slots[k]) <=> (R.slots[k].type = "image")

\* C2 as amended: a slot carries the `aspect` key only if its type is image, and
\* an image slot carries it exactly when _simplify_ratio finds a label for the
\* pixel width and height of its element.
C2_AspectOnlyImage ==
    Completed /\ elements # <<>> =>
        \A k \in DOMAIN R.slots :
            ("aspect" \in DOMAIN R.slots[k]) <=>
                /\ R.slots[k].type = "image"
                /\ _simplify_ratio(SlotSources[k].bounding_box.width,
                                   SlotSources[k].bounding_box.height) # None

\* C2 witness: a result with an image slot that has no aspect, an image slot
\* that has one, or a non-image slot next to an image slot.
C2_Witness ==
    /\ Completed
    /\ \E k \in DOMAIN R.slots :
          R.slots[k].type = "image" /\ "aspect" \notin DOMAIN R.slots[k]
    /\ \E k \in DOMAIN R.slots : R.slots[k].type # "image"

\* C3: the sections partition the slots: every id in a section's slotIds is the
\* id of a top-level slot, and every top-level slot id occurs in exactly one
\* section's slotIds, exactly once.  Stated for pages whose elements have
\* pairwise distinct DOM ids.
C3_SectionsPartitionSlots ==
    Returned /\ DistinctDomIds =>
        /\ \A s \in DOMAIN R.sections : \A m \in DOMAIN R.sections[s].slotIds :
              \E k \in DOMAIN R.slots : R.slots[k].id = R.sections[s].slotIds[m]
        /\ \A k \in DOMAIN R.slots :
              Cardinality({<<s, m>> \in (DOMAIN R.sections) \X (1..Len(R.slots)) :
                              /\ m \in DOMAIN R.sections[s].slotIds
                              /\ R.sections[s].slotIds[m] = R.slots[k].id}) = 1

\* C4: analyze_layout never raises to its caller, and what it returns carries
\* all of the top-level keys.
C4_AlwaysReturnsShape ==
    /\ pc # "raised"
    /\ (pc = "done") <=> (result # None)
    /\ Returned => TopLevelKeys \subseteq DOMAIN R

\* C4 witness: a page-level accessor call raised and a dictionary was returned.
C4_Witness ==
    Returned /\ page.fail = "wait_for_load_state"

\* C5: after a page-level failure the result has a non-empty error string, the
\* fallback viewport 1920 x 1000, no section and no slot.
C5_ErrorResultPopulated ==
    Returned /\ page.fail # "none" =>
        /\ "error" \in DOMAIN R
        /\ R.error # ""
        /\ R.viewport = [width |-> 1920, height |-> 1000]
        /\ R.sections = <<>>
        /\ R.slots = <<>>

\* C6: when no element survives collection the result is the empty shell:
\* sectionCount 0, slotCount 0, patternType "empty", no section, no slot and no
\* error key.
C6_EmptyShell ==
    Completed /\ elements = <<>> =>
        /\ R.patternSummary.sectionCount = 0
        /\ R.patternSummary.slotCount = 0
        /\ R.patternSummary.patternType = "empty"
        /\ R.sections = <<>>
        /\ R.slots = <<>>
        /\ "error" \notin DOMAIN R

\* C6 witness: handles were scanned, none was collected, and a result came back.
C6_Witness ==
    Completed /\ elements = <<>> /\ Len(handles) = 2

\* C7: when elements were collected but none became a slot, the result is the
\* empty shell of empty input: patternType "empty" and no error key.
C7_FilteredIsEmptyShell ==
    Completed /\ elements # <<>> /\ R.slots = <<>> =>
        /\ R.patternSummary.patternType = "empty"
        /\ "error" \notin DOMAIN R

\* a handle no accessor call of which raises
Sound(h) == h.fail = "none"
\* a handle that the collector keeps when none of its calls raises
Renderable(h) == h.tag \notin excluded_tags /\ ~BoxMissing(h.box) /\ h.visible

\* the ElementInfo records of those of the first n handles that satisfy Keep
InfosOf(hs, n, Keep(_)) ==
    LET kept == SelectSeq(SubSeq(hs, 1, n), Keep)
    IN  [k \in DOMAIN kept |-> Val(_get_element_info([kept[k] EXCEPT !.fail = "none"]))]

\* C8 as stated: a handle on which any accessor call raises is skipped, every
\* other renderable handle is collected, and no error key results.
C8_AnyFailureSkips ==
    LET Kept(h) == Sound(h) /\ Renderable(h)
    IN  /\ pc = "collect" => Len(elements) = Len(InfosOf(handles, idx, Kept))
        /\ Completed => "error" \notin DOMAIN R

\* C8 as amended: a handle is skipped when one of its calls other than the
\* animation and component detection raises; when the animation or component
\* detection raises the handle is still collected, with that descriptor None.
\* Every other renderable handle is collected unchanged and no error key results.
C8_GuardedFailureSkips ==
    LET Kept(h) == (Sound(h) \/ h.fail \in InnerGuardedCalls) /\ Renderable(h)
        Degraded(h) ==
            [h EXCEPT !.anim = IF h.fail = "detect_animations" THEN None ELSE @,
                      !.comp = IF h.fail = "detect_component" THEN None ELSE @]
        degraded == [k \in DOMAIN handles |-> Degraded(handles[k])]
    IN  /\ pc = "collect" => elements = InfosOf(degraded, idx, Kept)
        /\ Completed => "error" \notin DOMAIN R

\* C8 witness: the loop has passed a handle whose tag check raised and has
\* collected the handle after it.
C8_Witness ==
    /\ pc = "collect" /\ idx = 2
    /\ handles[1].fail = "tag_check"
    /\ Len(elements) = 1

\* C11: every component of a slot's normalized bounding box is >= 0, whatever
\* pixel geometry the page reports.
C11_BoxNonNegative ==
    Returned =>
        \A k \in DOMAIN R.slots :
            /\ R.slots[k].boundingBox.x >= 0
            /\ R.slots[k].boundingBox.y >= 0
            /\ R.slots[k].boundingBox.width >= 0
            /\ R.slots[k].boundingBox.height >= 0

\* C13: the size filter never drops a text element, whatever its width and
\* height, and drops the non-text elements below 50 x 50: the slots of the
\* result are, in order, the collected text elements together with the
\* non-text elements that are large enough, less those skipped for another
\* reason (full-page wrapper, empty leaf).
C13_TextNeverDroppedBySize ==
    Completed /\ elements # <<>> =>
        LET LargeEnough(e) ==
                /\ e.bounding_box.width >= min_size /\ e.bounding_box.height >= min_size
                /\ ~(e.bounding_box.width < SmallSide /\ e.bounding_box.height < SmallSide)
            Kept(e) == /\ e.element_type = "text" \/ LargeEnough(e)
                       /\ ~FullBleed(e, viewport.width, viewport.height)
                       /\ SlotType(e) # None
            kept == SelectSeq(elements, Kept)
        IN  /\ Len(R.slots) = Len(kept)
            /\ \A k \in DOMAIN kept :
                  R.slots[k].boundingBox =
                      _normalize_bounding_box(kept[k].bounding_box,
                                              viewport.width, viewport.height)

\* C14: the id of a slot whose element has no DOM id is
\* slot-<role>-<counter> with <role> the slot's own canonical role field and
\* <counter> the number of slots created before it; with a DOM id it is
\* slot-<domId>.
C14_SlotIdFromCanonicalRole ==
    Completed /\ elements # <<>> =>
        \A k \in DOMAIN R.slots :
            R.slots[k].id =
                IF Truthy(SlotSources[k].id)
                THEN "slot-" \o Val(SlotSources[k].id)
                ELSE "slot-" \o R.slots[k].role \o "-" \o ToString(k - 1)

\* the index of slot k's element in significant_elements (0-based)
SourceIndex(k) ==
    LET sig == significant_elements(elements)
        eligible == {i \in DOMAIN sig : Eligible(sig[i])}
    IN  (CHOOSE i \in eligible : Cardinality({m \in eligible : m <= i}) = k) - 1

\* C18: a slot carries repeatedIndex, non-null, if and only if its repeated
\* flag is true; a slot that is not repeated carries neither key.  A slot is
\* repeated exactly when its element belongs to a repeated group, and its
\* index is its position in that group.
C18_RepeatedIndexIffRepeated ==
    Completed /\ elements # <<>> =>
        LET groups == _detect_repeated_groups(significant_elements(elements))
        IN  \A k \in DOMAIN R.slots :
                LET s == R.slots[k]
                    grouped == \E g \in DOMAIN groups : SourceIndex(k) \in Range(groups[g])
                IN  /\ ("repeatedIndex" \in DOMAIN s) <=> grouped
                    /\ ("repeated" \in DOMAIN s) <=> grouped
                    /\ grouped =>
                          /\ s.repeated = TRUE
                          /\ s.repeatedIndex # None
                          /\ \E g \in DOMAIN groups :
                                /\ Val(s.repeatedIndex) + 1 \in DOMAIN groups[g]
                                /\ groups[g][Val(s.repeatedIndex) + 1] = SourceIndex(k)

\* C18 witness: a result with a repeated slot at index 1 of its group.
C18_Witness ==
    /\ Completed
    /\ \E k \in DOMAIN R.slots :
          /\ "repeatedIndex" \in DOMAIN R.slots[k]
          /\ R.slots[k].repeatedIndex = Some(1)

\* C20: analyze_layout issues no readiness wait: on a page whose viewport and
\* elements are readable the outcome does not depend on a wait succeeding, so
\* the result is not the error dictionary.
C20_NoReadinessWait ==
    Returned /\ page.fail \notin {"viewport_size", "locator"} =>
        "error" \notin DOMAIN R

-----------------------------------------------------------------------------
(* Properties of _detect_repeated_groups *)

GroupsOut == Val(fnOut)
Applied == fn = "_detect_repeated_groups" /\ fnOut # None

\* i and j are members of one returned group
SameGroup(i, j) ==
    \E k \in DOMAIN GroupsOut : i \in Range(GroupsOut[k]) /\ j \in Range(GroupsOut[k])

\* a and b differ by less than pct percent of the larger of the two
DifferBelow(a, b, pct) == 100 * Abs(a - b) < pct * Max2(a, b)

WidthOf(i) == fnIn[i + 1].bounding_box.width
HeightOf(i) == fnIn[i + 1].bounding_box.height

SimilarPair(i, j) ==
    DifferBelow(WidthOf(i), WidthOf(j), 10) /\ DifferBelow(HeightOf(i), HeightOf(j), 10)

Indices == 0..(Len(fnIn) - 1)

\* C9 as stated: any two elements whose widths and heights each differ by less
\* than 10% of the larger one end up in the same group.
C9_SimilarPairsGrouped ==
    Applied =>
        \A i, j \in Indices : i < j /\ SimilarPair(i, j) => SameGroup(i, j)

\* i belongs to a group whose first member comes before index n
AbsorbedBefore(i, n) ==
    \E k \in DOMAIN GroupsOut : k < n /\ i \in Range(GroupsOut[k])

\* C9 as amended: two such elements end up in the same group unless one of them
\* belongs to a group whose first member precedes them both.
C9_SimilarPairsGroupedUnlessAbsorbed ==
    Applied =>
        \A i, j \in Indices :
            i < j /\ SimilarPair(i, j) /\ ~AbsorbedBefore(i, i) /\ ~AbsorbedBefore(j, i)
                => SameGroup(i, j)

\* C9 witness: three elements, the last two similar and grouped together while
\* the first is in no group.
C9_Witness ==
    /\ Applied
    /\ Len(fnIn) = 3
    /\ SimilarPair(1, 2) /\ SameGroup(1, 2)
    /\ ~SameGroup(0, 0)

\* C10 as stated: two elements whose widths differ by 15% or more of the larger
\* width are never members of the same group.
C10_DissimilarNeverGrouped ==
    Applied =>
        \A i, j \in Indices :
            SameGroup(i, j) => DifferBelow(WidthOf(i), WidthOf(j), 15)

\* C10 as amended: an element is never in a group whose first member differs
\* from it in width by 15% or more of the larger width.
C10_DissimilarFromFirstNeverGrouped ==
    Applied =>
        \A k \in DOMAIN GroupsOut : \A m \in DOMAIN GroupsOut[k] :
            /\ GroupsOut[k][1] = k
            /\ DifferBelow(WidthOf(k), WidthOf(GroupsOut[k][m]), 15)

\* C10 witness: a group was formed from a list that also holds an element 15%
\* or more narrower or wider than the group's first member.
C10_Witness ==
    /\ Applied
    /\ \E k \in DOMAIN GroupsOut : \E j \in Indices :
          /\ ~DifferBelow(WidthOf(k), WidthOf(j), 15)
          /\ ~SameGroup(k, j)

\* C22: in the output of _detect_repeated_groups every group has at least two
\* members, its key is its first member, no index occurs twice in a group and
\* no index belongs to two groups.
C22_GroupsDisjoint ==
    Applied =>
        \A k \in DOMAIN GroupsOut :
            LET g == GroupsOut[k]
            IN  /\ Len(g) >= 2
                /\ g[1] = k
                /\ \A m, n \in DOMAIN g : m # n => g[m] # g[n]
                /\ \A k2 \in DOMAIN GroupsOut :
                      k2 # k => Range(g) \cap Range(GroupsOut[k2]) = {}

\* C22 witness: a group was formed around index 0, and a later ungrouped
\* element is similar to one of its members.
C22_Witness ==
    /\ Applied
    /\ Len(fnIn) = 3
    /\ 0 \in DOMAIN GroupsOut /\ GroupsOut[0] = <<0, 2>>
    /\ SimilarPair(1, 2)
    /\ ~SameGroup(1, 1)

-----------------------------------------------------------------------------
(* Properties of _generate_pattern_summary *)

AppliedPattern == fn = "_generate_pattern_summary" /\ fnOut # None

\* the canonical roles of the input sections, in order
InputRoles == [k \in DOMAIN fnIn.sections |-> _normalize_role(fnIn.sections[k].role)]

\* the positions at which a run of equal canonical roles starts
RunStarts == {k \in DOMAIN InputRoles : k = 1 \/ InputRoles[k] # InputRoles[k - 1]}

\* C12: pattern_sequence never holds two identical adjacent entries, and it holds
\* one entry per run of equal canonical roles, so a role that recurs after a
\* different role appears again.
C12_RunLengthDedup ==
    AppliedPattern =>
        LET seq == Val(fnOut).patternSequence
        IN  /\ \A k \in 1..(Len(seq) - 1) : seq[k] # seq[k + 1]
            /\ Len(seq) = Cardinality(RunStarts)
            /\ \A k \in RunStarts :
                  seq[Cardinality({m \in RunStarts : m <= k})] = InputRoles[k]

\* C12 witness: four sections, two adjacent ones with the same canonical role
\* and a role recurring after a different one, summarised in three entries.
C12_Witness ==
    /\ AppliedPattern
    /\ Len(fnIn.sections) = 4
    /\ InputRoles[1] = InputRoles[2]
    /\ InputRoles[3] # InputRoles[2]
    /\ InputRoles[4] = InputRoles[1]
    /\ Len(Val(fnOut).patternSequence) = 3

-----------------------------------------------------------------------------
(* Properties of _infer_screen_type *)

AppliedScreen == fn = "_infer_screen_type" /\ fnOut # None

\* the aggregated, lower-cased text and class names of the input elements
AggregatedText ==
    Lower(Join(" ", [k \in DOMAIN fnIn.elements |-> fnIn.elements[k].text_content]))
AggregatedClasses ==
    Lower(Join(" ", [k \in DOMAIN fnIn.elements |-> Join(" ", fnIn.elements[k].class_names)]))
SomeRoleHas(w) == \E k \in DOMAIN fnIn.sections : Contains(w, fnIn.sections[k].role)

ArchetypeOrder ==
    <<"auth", "services", "pricing", "portfolio", "blog", "landing", "dashboard", "page">>

\* the trigger of each archetype
Trigger(archetype) ==
    CASE archetype = "auth" ->
            \/ \E k \in auth_keywords : Contains(k, AggregatedText)
            \/ \E k \in auth_classes : Contains(k, AggregatedClasses)
      [] archetype = "services" ->
            Contains("service", AggregatedClasses) \/ SomeRoleHas("service")
      [] archetype = "pricing" ->
            Contains("pricing", AggregatedClasses) \/ SomeRoleHas("pricing")
      [] archetype = "portfolio" ->
            Contains("portfolio", AggregatedClasses) \/ SomeRoleHas("portfolio")
      [] archetype = "blog" ->
            Contains("blog", AggregatedClasses) \/ Contains("article", AggregatedClasses)
      [] archetype = "landing" ->
            Contains("landing", AggregatedClasses) \/ SomeRoleHas("hero")
      [] archetype = "dashboard" ->
            \/ \E k \in dashboard_keywords : Contains(k, AggregatedText)
            \/ \E k \in dashboard_keywords : Contains(k, AggregatedClasses)
      [] archetype = "page" -> TRUE

\* C15: the screen type is the first archetype of the order auth, services,
\* pricing, portfolio, blog, landing, dashboard, page whose trigger holds; in
\* particular text containing "sign in" gives auth whatever else is present.
C15_FirstArchetypeWins ==
    AppliedScreen =>
        /\ \E n \in DOMAIN ArchetypeOrder :
              /\ Val(fnOut) = ArchetypeOrder[n]
              /\ Trigger(ArchetypeOrder[n])
              /\ \A m \in 1..(n - 1) : ~Trigger(ArchetypeOrder[m])
        /\ Contains("sign in", AggregatedText) => Val(fnOut) = "auth"

\* C15 witness: text with both "sign in" and "dashboard" above a hero section,
\* classified auth.
C15_Witness ==
    /\ AppliedScreen
    /\ Contains("sign in", AggregatedText)
    /\ Contains("dashboard", AggregatedText)
    /\ SomeRoleHas("hero")
    /\ Val(fnOut) = "auth"

-----------------------------------------------------------------------------
(* Properties of _detect_grid_layout *)

AppliedGrid == fn = "_detect_grid_layout" /\ fnOut # None

\* the number of input slots in the 0.05-wide y-bin b
BinPopulation(b) ==
    Cardinality({k \in DOMAIN fnIn : GridBin(fnIn[k].bounding_box.y) = b})

\* the population of the most populated bin, 0 for an empty list
FullestBin ==
    LET pops == {BinPopulation(GridBin(fnIn[k].bounding_box.y)) : k \in DOMAIN fnIn} \cup {0}
    IN  CHOOSE p \in pops : \A q \in pops : q <= p

\* the four slots of the example: one bin, x = 0.0, 0.25, 0.5, 0.75, width 0.2
FourInARow ==
    /\ Len(fnIn) = 4
    /\ FullestBin = 4
    /\ {fnIn[k].bounding_box.x : k \in DOMAIN fnIn} = {0, 2500, 5000, 7500}
    /\ \A k \in DOMAIN fnIn : fnIn[k].bounding_box.width = 2000

\* C16: grid detection returns a grid descriptor whose gridColumns is the
\* population of the most populated y-bin whenever that is at least 2, and None
\* when no bin holds 2 slots; four slots in one bin at x = 0.0, 0.25, 0.5, 0.75,
\* each 0.2 wide, give gridColumns 4 and a positive gap.
C16_GridColumnsOfFullestRow ==
    AppliedGrid =>
        LET grid == Val(fnOut)
        IN  /\ FullestBin >= 2 =>
                  /\ grid # None
                  /\ Val(grid).displayType = "grid"
                  /\ Val(grid).gridColumns = FullestBin
            /\ FullestBin < 2 => grid = None
            /\ FourInARow => Val(grid).gridColumns = 4 /\ Val(grid).gap > 0

\* C16 witness: the four slots of the example, given out of x order.
C16_Witness ==
    /\ AppliedGrid
    /\ FourInARow
    /\ fnIn[1].bounding_box.x = 7500
    /\ Val(Val(fnOut)).gridColumns = 4
    /\ Val(Val(fnOut)).gap = 500

-----------------------------------------------------------------------------
(* Properties of _simplify_ratio *)

AppliedRatio == fn = "_simplify_ratio" /\ fnOut # None

Digits == {"0", "1", "2", "3", "4", "5", "6", "7", "8", "9"}

\* s is the decimal numeral of a positive integer
IsNumeral(s) ==
    /\ s # ""
    /\ SubSeq(s, 1, 1) # "0"
    /\ \A i \in 1..Len(s) : SubSeq(s, i, i) \in Digits

\* l reads num:denom with num >= 1 and 1 <= denom <= 20
IsRatioLabel(l) ==
    \E i \in 2..(Len(l) - 1) :
        /\ SubSeq(l, i, i) = ":"
        /\ IsNumeral(SubSeq(l, 1, i - 1))
        /\ SubSeq(l, i + 1, Len(l)) \in {ToString(d) : d \in 1..20}

\* width / height differs from w / h by less than one hundredth (height, h > 0)
WithinHundredth(width, height, w, h) ==
    100 * Abs(width * h - w * height) < height * h

\* C17: _simplify_ratio returns the table label of a common ratio the input is
\* within 0.01 of ((1600, 900) gives "16:9", (500, 500) gives "1:1"), None when
\* the height is 0, and for any other input None or a num:denom label with
\* 1 <= denom <= 20.
C17_RatioLabel ==
    AppliedRatio =>
        LET out == Val(fnOut)
            near == {c \in DOMAIN common_ratios :
                        /\ fnIn.height > 0
                        /\ WithinHundredth(fnIn.width, fnIn.height,
                                           common_ratios[c][1], common_ratios[c][2])}
        IN  /\ fnIn.height = 0 => out = None
            /\ \A c \in near : out = Some(common_ratios[c][3])
            /\ fnIn.height > 0 /\ near = {} => out = None \/ IsRatioLabel(Val(out))
            /\ fnIn = [width |-> 1600, height |-> 900] => out = Some("16:9")
            /\ fnIn = [width |-> 500, height |-> 500] => out = Some("1:1")

\* C17 witness: a box close to but not exactly 16:10 gets the table label.
C17_Witness ==
    /\ AppliedRatio
    /\ fnIn = [width |-> 162, height |-> 101]
    /\ Val(fnOut) = Some("16:10")

\* the number a decimal numeral denotes
RECURSIVE ParseNat(_)
ParseNat(s) ==
    IF s = "" THEN 0
    ELSE LET last == SubSeq(s, Len(s), Len(s))
             digit == CHOOSE d \in 0..9 : ToString(d) = last
         IN  10 * ParseNat(SubSeq(s, 1, Len(s) - 1)) + digit

ColonAt(l) == CHOOSE i \in 1..Len(l) : SubSeq(l, i, i) = ":"
LabelNum(l) == ParseNat(SubSeq(l, 1, ColonAt(l) - 1))
LabelDenom(l) == ParseNat(SubSeq(l, ColonAt(l) + 1, Len(l)))

Coprime(a, b) == \A g \in 2..b : ~(a % g = 0 /\ b % g = 0)

\* the loop over the common-ratio table returns no label, so that the label
\* returned is the one of the denominator search
OffTable ==
    \A c \in DOMAIN common_ratios :
        ~NearRatio(fnIn.width, fnIn.height, common_ratios[c][1], common_ratios[c][2])

\* the label returned, taken from the denominator search
SearchLabel == Val(Val(fnOut))
FromSearch == AppliedRatio /\ fnIn.height > 0 /\ OffTable /\ Val(fnOut) # None

\* C29: a label that _simplify_ratio returns from its denominator search, for
\* height > 0, is num:denom in lowest terms with 1 <= denom <= 20 and
\* |width / height - num / denom| < 0.01.  Violated: 204 x 100 gets "41:20",
\* and 204 / 100 differs from 41 / 20 by 0.01 exactly; the float difference
\* 2.04 - 2.05 comes out just under the float 0.01.
C29_SearchLabelLowestTerms ==
    FromSearch =>
        /\ IsRatioLabel(SearchLabel)
        /\ LabelDenom(SearchLabel) >= 1 /\ LabelDenom(SearchLabel) <= 20
        /\ Coprime(LabelNum(SearchLabel), LabelDenom(SearchLabel))
        /\ WithinHundredth(fnIn.width, fnIn.height,
                           LabelNum(SearchLabel), LabelDenom(SearchLabel))

\* C29 as amended: the label of the denominator search is num:denom in lowest
\* terms with 1 <= denom <= 20, and width / height differs from num / denom by
\* 0.01 at most.
C29_SearchLabelWithinTolerance ==
    FromSearch =>
        /\ IsRatioLabel(SearchLabel)
        /\ LabelDenom(SearchLabel) >= 1 /\ LabelDenom(SearchLabel) <= 20
        /\ Coprime(LabelNum(SearchLabel), LabelDenom(SearchLabel))
        /\ 100 * Abs(fnIn.width * LabelDenom(SearchLabel)
                      - LabelNum(SearchLabel) * fnIn.height)
              <= fnIn.height * LabelDenom(SearchLabel)

\* C29 witness: 204 x 100 misses the table and gets "41:20" from the search, a
\* label in lowest terms that is exactly 0.01 from the ratio.
C29_Witness ==
    /\ FromSearch
    /\ fnIn = [width |-> 204, height |-> 100]
    /\ SearchLabel = "41:20"

-----------------------------------------------------------------------------
(* Properties of concurrent invocations *)

\* invocations i and j were given accessors presenting the same page, and the
\* same arguments
SameInput(i, j) == calls[i].page = calls[j].page /\ calls[i].args = calls[j].args

HasReturned(i) == calls[i].local.pc = "done" /\ calls[i].local.result # None

\* C19: two invocations on accessors presenting the same page, with the same
\* arguments, return identical results whatever other invocation runs before
\* them or between their steps and however the accessor calls of all of them
\* interleave; no invocation raises, and no two invocations hold the same list.
C19_SameInputSameResult ==
    /\ \A i \in DOMAIN calls : calls[i].local.pc # "raised"
    /\ \A i, j \in DOMAIN calls :
          i # j /\ calls[i].local.elements # None =>
              calls[i].local.elements # calls[j].local.elements
    /\ \A i, j \in DOMAIN calls :
          SameInput(i, j) /\ HasReturned(i) /\ HasReturned(j) =>
              calls[i].local.result = calls[j].local.result

\* C19 witness: the invocation on the other page created its list first and
\* the first invocation last; all have returned, the first two the same
\* one-slot result and the third another result.
C19_Witness ==
    /\ \A i \in DOMAIN calls : HasReturned(i)
    /\ calls[3].local.elements = Some(1)
    /\ calls[1].local.elements = Some(3)
    /\ Len(Val(calls[1].local.result).slots) = 1
    /\ calls[2].local.result = calls[1].local.result
    /\ calls[3].local.result # calls[1].local.result

-----------------------------------------------------------------------------
(* Properties of analyze_layout on a page accessor closed while it runs *)

\* the caller closed the accessor while the collection loop was running
ClosedInLoop == closedAt # None /\ Val(closedAt).pc \in {"collect"} \cup HandleCalls

\* C21 as stated (its result): when the page is closed during collection the
\* returned result is the empty shell or the error-shaped result, that is, it
\* has no slots and no sections and its pattern type is "empty" or "unknown".
C21_ClosedPageGivesShell ==
    (Returned /\ ClosedInLoop) =>
        /\ R.slots = <<>>
        /\ R.sections = <<>>
        /\ R.patternSummary.patternType \in {"empty", "unknown"}

\* the elements analyze_layout ends with when its accessor is closed at
\* closedAt: those collected by then, and the element in progress when only its
\* animation or component detection was still to come, with None for each
\* detection the close cut off
KeptAtClose ==
    LET at == Val(closedAt)
        Cut(h) == IF at.pc = "detect_animations"
                  THEN [h EXCEPT !.anim = None, !.comp = None]
                  ELSE [h EXCEPT !.comp = None]
    IN  IF at.pc \in InnerGuardedCalls
        THEN Append(at.elements, Val(_get_element_info(Cut(Val(at.current)))))
        ELSE at.elements

\* what holds in every state of a run whose accessor may be closed
ClosedPageSafety ==
    /\ pc # "raised"
    /\ idx <= Len(handles) /\ Len(handles) <= MaxScan
    /\ pc \in {"collect"} \cup HandleCalls =>
          Len(handles) = Len(page.handles) \/ Len(handles) = MaxScan
    /\ pc = "collect" /\ idx = 0 => handles = SubSeq(page.handles, 1, Len(handles))
    /\ ClosedInLoop => elements \in {Val(closedAt).elements, KeptAtClose}
    /\ (Returned /\ ClosedInLoop) =>
          /\ idx = Len(handles)
          /\ "error" \notin DOMAIN R
          /\ elements = KeptAtClose
          /\ elements = <<>> =>
                /\ R.slots = <<>> /\ R.sections = <<>>
                /\ R.patternSummary.patternType = "empty"
                /\ R.patternSummary.slotCount = 0 /\ R.patternSummary.sectionCount = 0
          /\ elements # <<>> =>
                R = LayoutOf(KeptAtClose, args.component_id, args.component_name,
                             viewport.width, viewport.height)

\* C21 as amended: when the page is closed during collection, analyze_layout
\* still returns, having visited each scanned handle once, the first 1000 at
\* most, and no exception leaves it; every element not yet collected is
\* skipped, except the one in progress when only its animation or component
\* detection remained, which is collected without the descriptors not yet
\* read; the result carries no error key and is the empty shell when no
\* element was collected, otherwise the ordinary layout of the collected ones.
C21_ClosedPageDegrades ==
    /\ []ClosedPageSafety
    /\ [][idx' = idx + 1]_idx
    /\ <>(pc = "done")

\* C21 witness: a page of 1001 handles was closed while the first was having
\* its component detected; that element was collected, the scan stopped after
\* 1000 handles, and the result holds one slot.
C21_Witness ==
    /\ Returned /\ ClosedInLoop
    /\ Len(page.handles) > MaxScan
    /\ idx = MaxScan
    /\ Val(closedAt).pc = "detect_component"
    /\ Len(R.slots) = 1

-----------------------------------------------------------------------------
(* Properties of _infer_semantic_role *)

AppliedRole == fn = "_infer_semantic_role" /\ fnOut # None

ClassOrTextHas(word) ==
    \/ Contains(word, Lower(Join(" ", fnIn.element.class_names)))
    \/ Contains(word, Lower(fnIn.element.text_content))

ClassHas(word) == Contains(word, Lower(Join(" ", fnIn.element.class_names)))

\* the nine rules in the order the claim gives them
RuleOrder ==
    <<"hero", "card", "card-grid", "navigation", "headline", "subhead", "cta", "image",
      "content-block">>

\* the condition under which the element satisfies a rule
Satisfies(rule) ==
    CASE rule = "hero" ->
            \/ ClassOrTextHas("hero")
            \/ /\ 10 * fnIn.position_in_viewport.n < 3 * fnIn.position_in_viewport.d
               /\ fnIn.is_large
               /\ fnIn.has_headline
      [] rule = "card" -> ClassOrTextHas("card")
      [] rule = "card-grid" ->
            ClassHas("grid") \/ fnIn.element.computed_styles.display = "grid"
      [] rule = "navigation" ->
            \/ fnIn.element.tag = "nav"
            \/ ClassHas("nav")
            \/ fnIn.element.role = Some("navigation")
      [] rule = "headline" -> fnIn.element.tag \in {"h1", "h2", "h3"}
      [] rule = "subhead" -> fnIn.element.tag \in {"h4", "h5", "h6"}
      [] rule = "cta" ->
            /\ fnIn.element.tag \in {"button", "a"}
            /\ ClassHas("cta") \/ ClassHas("button")
      [] rule = "image" -> fnIn.element.element_type = "image"
      [] rule = "content-block" -> TRUE

\* the raw roles a rule can return
RolesOf(rule) ==
    CASE rule = "hero" -> {"hero", "hero-split"}
      [] rule = "card" -> {"card-item"}
      [] rule = "image" -> {"hero-image", "image"}
      [] OTHER -> {rule}

\* C23: the role returned is that of the earliest rule, in the order hero,
\* card, card-grid, navigation, headline, subhead, cta, image, content-block,
\* whose condition the element satisfies.
C23_FirstRuleWins ==
    AppliedRole =>
        \A k \in DOMAIN RuleOrder :
            (Satisfies(RuleOrder[k]) /\ \A j \in 1..(k - 1) : ~Satisfies(RuleOrder[j]))
                => Val(fnOut) \in RolesOf(RuleOrder[k])

\* C23 witness: a heading element whose class contains "card" got the card
\* role although it also satisfies the headline rule.
C23_Witness ==
    /\ AppliedRole
    /\ fnIn.element.tag = "h2"
    /\ ClassHas("card")
    /\ Val(fnOut) = "card-item"

-----------------------------------------------------------------------------
(* Properties of the sections of a result *)

\* the y-bin of an output slot: its normalized y rounded to the nearest 0.10
BinOf(s) == SectionBin(s.boundingBox.y)

\* the slots of the result in order, each paired with its y-bin
Binned ==
    SubSeq([k \in DOMAIN R.slots |-> <<R.slots[k], BinOf(R.slots[k])>>], 1, Len(R.slots))

ResultBins(binned) == {binned[k][2] : k \in DOMAIN binned}

\* the slots of the result whose bin is the k-th smallest, in slot order
MembersOf(binned, k) ==
    LET InKth(p) == Cardinality({b \in ResultBins(binned) : b < p[2]}) = k - 1
    IN  [m \in DOMAIN SelectSeq(binned, InKth) |-> SelectSeq(binned, InKth)[m][1]]

MemberRoles(binned, k) ==
    {MembersOf(binned, k)[m].role : m \in DOMAIN MembersOf(binned, k)}

\* C24: a section's role is hero when a member slot's role contains "hero",
\* otherwise card-grid when a member's role contains "card" or "grid",
\* otherwise content.
C24_SectionRolePriority ==
    Returned =>
        \A binned \in {Binned} : \A k \in DOMAIN R.sections :
            R.sections[k].role =
                IF \E r \in MemberRoles(binned, k) : Contains("hero", r) THEN "hero"
                ELSE IF \E r \in MemberRoles(binned, k) :
                            Contains("card", r) \/ Contains("grid", r)
                THEN "card-grid"
                ELSE "content"

\* C24 witness: a section holding a hero slot next to a card slot has role hero.
C24_Witness ==
    /\ Returned
    /\ Len(R.sections) = 1
    /\ MemberRoles(Binned, 1) = {"hero", "card"}
    /\ R.sections[1].role = "hero"

\* C25: the sections are in strictly ascending order of y-bin: the k-th
\* section lists exactly the slots of the k-th smallest bin, there is one
\* section per bin, and the counter in its id is its position, from 0.
C25_SectionsAscending ==
    Returned =>
        \A binned \in {Binned} :
            /\ Len(R.sections) = Cardinality(ResultBins(binned))
            /\ \A k \in DOMAIN R.sections :
                  /\ R.sections[k].slotIds =
                        [m \in DOMAIN MembersOf(binned, k) |-> MembersOf(binned, k)[m].id]
                  /\ R.sections[k].id =
                        "section-" \o R.sections[k].role \o "-" \o ToString(k - 1)

\* C25 witness: the page lists a lower element before a higher one and the
\* result has two sections, the higher one first.
C25_Witness ==
    /\ Returned
    /\ Len(R.slots) = 2 /\ Len(R.sections) = 2
    /\ BinOf(R.slots[1]) > BinOf(R.slots[2])
    /\ R.sections[1].slotIds = <<R.slots[2].id>>

-----------------------------------------------------------------------------
(* Properties of _detect_visual_groups *)

AppliedVisual == fn = "_detect_visual_groups" /\ fnOut # None
VisualOut == Val(fnOut).visualGroups

\* C26: every visual group holds at least two slot ids, all distinct, no slot
\* id is in two groups, the keys are group-0, group-1, ... without a gap, and
\* groupCount is the number of groups.
C26_VisualGroupsDisjoint ==
    AppliedVisual =>
        /\ \A key \in DOMAIN VisualOut :
              LET g == VisualOut[key]
              IN  /\ Len(g) >= 2
                  /\ \A m, n \in DOMAIN g : m # n => g[m] # g[n]
                  /\ \A other \in DOMAIN VisualOut :
                        other # key => Range(g) \cap Range(VisualOut[other]) = {}
        /\ DOMAIN VisualOut =
              {"group-" \o ToString(k) : k \in 0..(Cardinality(DOMAIN VisualOut) - 1)}
        /\ Val(fnOut).groupCount = Cardinality(DOMAIN VisualOut)

\* C26 witness: two groups were formed, and a slot of the first is aligned
\* with, and has the role of, the slot the second group started from.
C26_Witness ==
    /\ AppliedVisual
    /\ Len(fnIn) = 4
    /\ DOMAIN VisualOut = {"group-0", "group-1"}
    /\ VisualOut["group-0"] = <<fnIn[1].id, fnIn[3].id>>
    /\ VisualOut["group-1"] = <<fnIn[2].id, fnIn[4].id>>
    /\ VisuallyJoined(fnIn[2], fnIn[3])

-----------------------------------------------------------------------------
(* Properties of the repeated-group metadata of a result *)

RECURSIVE SumLens(_)
SumLens(items) ==
    IF items = <<>> THEN 0 ELSE Len(items[1].slotIds) + SumLens(Tail(items))

\* C27: every entry of grouping.repeatedGroups lists at least two slot ids
\* across its items.  (A <div> and an <img> of the same size form one repeated
\* group of elements but get different roles, so each of the two
\* repeated-<role> entries lists one slot.)
C27_RepeatedGroupHasTwoSlots ==
    (Returned /\ "grouping" \in DOMAIN R) =>
        \A key \in DOMAIN R.grouping.repeatedGroups :
            SumLens(R.grouping.repeatedGroups[key].items) >= 2

-----------------------------------------------------------------------------
(* Properties of the slot roles of a result *)

SlotRoles ==
    {"hero", "card", "card-grid", "navigation", "headline", "subhead", "cta", "hero-image",
     "image", "content"}

\* C28: every slot role of a result is one of hero, card, card-grid,
\* navigation, headline, subhead, cta, hero-image, image, content, and
\* features.hasFooter is false in every result that has a features map.
C28_SlotRolesClosed ==
    Returned =>
        /\ \A k \in DOMAIN R.slots : R.slots[k].role \in SlotRoles
        /\ "hasFooter" \in DOMAIN R.patternSummary.features
              => ~R.patternSummary.features.hasFooter

\* C28 witness: a <footer class="footer"> element became a slot of role content.
C28_Witness ==
    /\ Returned
    /\ Len(handles) = 1 /\ handles[1].tag = "footer"
    /\ Len(R.slots) = 1 /\ R.slots[1].role = "content"
    /\ R.patternSummary.features.hasFooter = FALSE

-----------------------------------------------------------------------------
(* Properties of _normalize_role *)

Renormalized == fn = "_normalize_role" /\ fnOut # None /\ Len(Val(fnOut)) = 2

\* C30: _normalize_role is idempotent: normalizing a role it returned gives
\* that role again.
C30_NormalizeIdempotent ==
    Renormalized => Val(fnOut)[2] = Val(fnOut)[1]

\* C30 witness: a non-canonical name was mapped to a canonical one, which the
\* second normalisation left alone.
C30_Witness ==
    /\ Renormalized
    /\ fnIn = "Card-Item"
    /\ Val(fnOut) = <<"card", "card">>

====
